---- MODULE Spec2Model ----
(***************************************************************************)
(* State-machine model of the TCP client cores of capacitor-tcpclient.     *)
(*                                                                         *)
(* Electron client (class TCPClient, net.Socket based): every public       *)
(* method and every socket/timer callback is one action.  The async        *)
(* methods only await already-settled promises, so a method body runs to   *)
(* its return (or to the creation of its Promise) without interleaving.    *)
(* A byte received from a socket is the pair <<s, p>>: the p-th byte that  *)
(* socket s delivered; its value is wire[s][p].                            *)
(*   Spec    sessions over several sockets with the stream reader          *)
(*   SpecRR  one socket, writeAndRead over byte values, caps and patterns  *)
(*   SpecRRLive    SpecRR with fair delivery of 'close' and write callbacks *)
(*   SpecRRExpect  writeAndRead with expect given as a hex string          *)
(*   SpecRRTimed   SpecRR under a clock: the idle timer at its expiry      *)
(*   SpecBatch     the batch buffer with a chunk that reaches its cap      *)
(*                                                                         *)
(* Android core (Kotlin class TCPClient): the caller's thread and the      *)
(* coroutines on Dispatchers.IO interleave; variables a_*, actions A_*.    *)
(*   SpecAndroid, SpecAndroidReconnect, SpecAndroidWriters (write mutex),  *)
(*   SpecAndroidProbe (isConnected peek), SpecAndroidDisconnect            *)
(*   (disconnectInternal from several threads), SpecAndroidExpect          *)
(*   (patterns over byte values), SpecAndroidIdle (the idle threshold of   *)
(*   the writeAndRead read loop, with variables k_* and actions K_* )      *)
(*                                                                         *)
(* Android bridge (Kotlin class TCPClientPlugin): variables p_*, actions   *)
(* P_*.  SpecAndroidPlugin, SpecAndroidBatcher (the batcher in time)       *)
(*                                                                         *)
(* iOS core (Swift class TCPClient): one action per block of its serial    *)
(* queue; variables i_*, actions I_*.  SpecIOS                             *)
(***************************************************************************)
EXTENDS Integers, Sequences, FiniteSets, TLC

\* ---- bounds of the model ------------------------------------------------
\* lifecycle specification: sockets created, writeAndRead calls, bytes per socket
LifeSocks == 2
LifeCalls == 2
LifeBytes == 1
\* lifecycle specification: bytes handed to one socket by write()
LifeWritten == 1
\* request/response specification (one socket)
RRCalls == 1
RRBytes == 3
MaxChunk == 2
\* Android specification: sessions, writeAndRead calls, reader jobs, bytes per session
ASocks == 1
ACalls == 1
AJobs == 2
ABytes == 2
\* Android reconnect specification: sessions
AReSocks == 2
\* Android writers specification: concurrent write() calls
AWriters == 2
\* Android probe specification: isConnected() calls
AProbes == 2
\* Android pattern specification: bytes per session with their values
AExpBytes == 3
\* Android batcher specification: the clock runs in steps of PTick ms up to PMaxTime
\* reads that return data in one read loop of the timing model
KReads == 7
PTick == 5
\* the Electron clock advances in steps of ETick ms up to EMaxTime ms
ETick == 25
EMaxTime == 175
PMaxTime == 20
\* Android disconnect specification: calls of disconnectInternal by the reader,
\* a failing write and the probe
ADiscCalls == 3
\* iOS specification: sessions, bytes per session, write() calls
ISocks == 2
IBytes == 2
IWrites == 2

\* ---- inputs --------------------------------------------------------------
\* an optional argument is <<>> when absent and <<v>> when given
MaxBytesArgs == {<<>>, <<0>>, <<1>>, <<2>>}
ExpectArgs == {<<>>, <<<<1>>>>, <<<<0, 1>>>>}
\* hex strings given as expect, as sequences of characters:
\* "", "1", "01", "0b", "g1", "1g", "0x1", "0X0B", "0 1", "0x"
HexStrings == {<<>>, <<"1">>, <<"0", "1">>, <<"0", "b">>, <<"g", "1">>, <<"1", "g">>,
               <<"0", "x", "1">>, <<"0", "X", "0", "B">>, <<"0", " ", "1">>,
               <<"0", " ", "x">>}
\* a string argument is the pair <<"hex", characters>>
HexExpectArgs == {<<"hex", cs>> : cs \in HexStrings}
\* length of the request of every writeAndRead call
ReqLen == 2
\* Android writeAndRead with a pattern: maxBytes, expect (byte values)
AExpectCaps == {1, 2}
AExpectPats == {<<1>>, <<0, 1>>}
\* gaps between two arrivals, in ms
KGaps == {0, 30, 50, 87, 152, 200}
AMaxBytesArgs == {0, 2}
AChunkSizeArgs == {1}

\* ---- program constants ---------------------------------------------------
mergeMaxBytes == 16 * 1024
mergeWindowMs == 10

Min(a, b) == IF a < b THEN a ELSE b
Max(a, b) == IF a > b THEN a ELSE b

Socks == 1..Max(LifeSocks, 1)
MaxRR == Max(LifeCalls, RRCalls)
RRIds == 1..MaxRR
ASockIds == 1..Max(ASocks, AReSocks)
ARRIds == 1..ACalls
AJobIds == 1..AJobs
AWriterIds == 1..AWriters
AProbeIds == 1..AProbes
ADiscIds == 1..ADiscCalls
ISockIds == 1..ISocks

VARIABLES
  sock,               \* this.sock: 0 = null, else socket id
  reading,            \* this.reading
  rrInFlight,         \* this.rrInFlight
  streamDataHandler,  \* this.streamDataHandler is defined
  onClose,            \* this.onClose: 0 = undefined, else the socket its closure captured
  lastChunkSize,      \* this.lastChunkSize
  pendingChunks,      \* this.pendingChunks, concatenated (pendingSize is its length)
  flushTimer,         \* this.flushTimer is armed
  now,                \* Date.now() and the timers' clock, in ms
  sockState,          \* per socket: none / connecting / open / closingLocal / closingOk / closingErr / closed
  dataL,              \* per socket: attached 'data' listeners that are stream handlers
  closeL,             \* per socket: the connect-time 'close' listener is registered
  conn,               \* per socket: closure of the connect() call that created it
  rrs,                \* per writeAndRead call: its closure
  nextSock, nextRR,   \* allocation of socket / call ids
  wire,               \* per socket: values of the bytes delivered so far
  written,            \* per socket: number of bytes handed to it by write()
  toReader,           \* per socket: bytes delivered while a stream handler was attached
  emitted,            \* per session: the bytes of its tcpData events, concatenated in order
  disc,               \* per session: the reasons of its tcpDisconnect events, in order
  lateData            \* per session: a tcpData event of it was sent after its tcpDisconnect

evars == <<sock, reading, rrInFlight, streamDataHandler, onClose, lastChunkSize,
           pendingChunks, flushTimer, now, sockState, dataL, closeL, conn, rrs,
           nextSock, nextRR, wire, written, toReader, emitted, disc, lateData>>

\* the Android core (Kotlin class TCPClient)
VARIABLES
  a_socket,           \* socket (with input and output): 0 = null, else session id
  a_readerJob,        \* readerJob: 0 = null, else job id
  a_rrInFlight,       \* rrInFlight
  a_lastChunkSize,    \* lastChunkSize
  a_jobs,             \* per reader job: none / active / cancelled / done, its stream
  a_rr,               \* per writeAndRead call: its coroutine and its result
  a_sent,             \* per session: bytes the peer has sent
  a_avail,            \* per session: bytes received and not yet read
  a_eof,              \* per session: the peer has closed
  a_closed,           \* per session: the socket was closed locally
  a_disc,             \* per session: reasons passed to delegate.onDisconnect
  a_stray,            \* delegate.onDisconnect was called while no session existed
  a_connecting,       \* a connect() coroutine is inside s.connect()
  a_discJoin,         \* disconnect() coroutine: -1 = none, else the job it joins (0: none)
  a_writeMutex,       \* writeMutex: 0 = free, else the caller that holds it
  a_writers,          \* per write() call: its coroutine and its result
  a_out,              \* per session: for every byte handed to output, the caller it came from
  a_probes,           \* per isConnected() call: its position in the probe and its result
  a_mark,             \* per session: markpos of input (-1: no mark)
  a_delivered,        \* per session: positions of the bytes read by the reader or a writeAndRead
  a_wire,             \* per session: values of the bytes the peer has sent
  a_buf,              \* per writeAndRead: buf[0 until used]
  a_pat,              \* per writeAndRead: the pattern its expect lambda searches
  a_stopInRR,         \* history: stopRead() was called while a writeAndRead had the
                      \* reader suspended, and startRead() was not called since
  a_dcalls,           \* per call of disconnectInternal from a thread of its own: its position
  a_nextSock, a_nextJob, a_nextRR

avars == <<a_socket, a_readerJob, a_rrInFlight, a_lastChunkSize, a_jobs, a_rr,
           a_sent, a_avail, a_eof, a_closed, a_disc, a_stray, a_connecting, a_discJoin,
           a_writeMutex, a_writers, a_out, a_probes, a_mark, a_delivered, a_dcalls,
           a_wire, a_buf, a_pat, a_stopInRR,
           a_nextSock, a_nextJob, a_nextRR>>

\* the Android bridge (Kotlin class TCPClientPlugin)
VARIABLES
  p_pending,          \* pending.size()
  p_flushPosted,      \* flushRunnable is posted on mainHandler
  p_events,           \* sizes of the tcpData events sent, in order
  p_now,              \* the clock of the main looper, in ms
  p_flushAt           \* the time at which the posted flushRunnable is due (-1: not posted)

pvars == <<p_pending, p_flushPosted, p_events, p_now, p_flushAt>>

\* the iOS core (Swift class TCPClient); every block on its serial queue is one step
VARIABLES
  i_fd,               \* fd: 0 = -1 (none), else session id
  i_reading,          \* reading
  i_readSource,       \* readSource: 0 = nil, else the session whose descriptor it watches
  i_lastChunkSize,    \* lastChunkSize
  i_net,              \* per session: none / up / fin (peer closed) / down (reset, network lost)
  i_avail,            \* per session: bytes received and not yet read
  i_sent,             \* per session: bytes the peer has sent
  i_received,         \* per session: bytes passed to delegate.didReceive
  i_disc,             \* per session: reasons passed to tcpClientDidDisconnect
  i_writes,           \* results of the write() calls, in order
  i_nextSock

ivars == <<i_fd, i_reading, i_readSource, i_lastChunkSize, i_net, i_avail, i_sent,
           i_received, i_disc, i_writes, i_nextSock>>

\* the read loop of the Android writeAndRead seen through its timing
VARIABLES
  k_running,          \* a read loop is running
  k_expect,           \* expect != null
  k_used,             \* reads that returned data so far (used > 0 after the first)
  k_lastDataAt,       \* lastDataAtNs != 0L
  k_interArr,         \* interArr
  k_gaps              \* every gap measured in this loop, oldest first

kvars == <<k_running, k_expect, k_used, k_lastDataAt, k_interArr, k_gaps>>

vars == <<evars, avars, pvars, ivars, kvars>>

\* ---- helpers -------------------------------------------------------------
Take(seq, n) == SubSeq(seq, 1, Min(n, Len(seq)))

\* The whole state as one record, so that handlers compose as functions.
S == [sock |-> sock, reading |-> reading, rrInFlight |-> rrInFlight,
      streamDataHandler |-> streamDataHandler, onClose |-> onClose,
      lastChunkSize |-> lastChunkSize, pendingChunks |-> pendingChunks,
      flushTimer |-> flushTimer, now |-> now, sockState |-> sockState, dataL |-> dataL,
      closeL |-> closeL, conn |-> conn, rrs |-> rrs, nextSock |-> nextSock,
      nextRR |-> nextRR, wire |-> wire, written |-> written, toReader |-> toReader,
      emitted |-> emitted, disc |-> disc, lateData |-> lateData]

Apply(st) ==
  /\ sock' = st.sock
  /\ reading' = st.reading
  /\ rrInFlight' = st.rrInFlight
  /\ streamDataHandler' = st.streamDataHandler
  /\ onClose' = st.onClose
  /\ lastChunkSize' = st.lastChunkSize
  /\ pendingChunks' = st.pendingChunks
  /\ flushTimer' = st.flushTimer
  /\ now' = st.now
  /\ sockState' = st.sockState
  /\ dataL' = st.dataL
  /\ closeL' = st.closeL
  /\ conn' = st.conn
  /\ rrs' = st.rrs
  /\ nextSock' = st.nextSock
  /\ nextRR' = st.nextRR
  /\ wire' = st.wire
  /\ written' = st.written
  /\ toReader' = st.toReader
  /\ emitted' = st.emitted
  /\ disc' = st.disc
  /\ lateData' = st.lateData
  /\ UNCHANGED <<avars, pvars, ivars, kvars>>

NoRR == [s |-> 0, shouldSuspend |-> FALSE, cap |-> 1, hasExpect |-> FALSE,
         expectBuf |-> <<>>, chunks |-> <<>>, matched |-> FALSE, timer |-> FALSE,
         idleTimer |-> FALSE, listening |-> FALSE, wpending |-> FALSE,
         lastDataAt |-> 0, interArr |-> <<>>, idleAt |-> 0,
         res |-> [status |-> "none"]]

NoConn == [connectTimer |-> FALSE, onError |-> FALSE, res |-> "none"]

NoJob == [state |-> "none", s |-> 0, size |-> 0]

NoWriter == [pc |-> "none", s |-> 0, res |-> "none"]

NoProbe == [pc |-> "none", s |-> 0, res |-> "none"]

NoDCall == [pc |-> "none", kind |-> "none", job |-> 0, s |-> 0, had |-> FALSE,
            reason |-> "none"]

NoCall == [pc |-> "none", s |-> 0, suspend |-> FALSE, wasReading |-> FALSE,
           joinJob |-> 0, cap |-> 0, hasExpect |-> FALSE, used |-> 0,
           res |-> [status |-> "none", error |-> "", used |-> 0, matched |-> FALSE]]

Init ==
  /\ sock = 0
  /\ reading = FALSE
  /\ rrInFlight = FALSE
  /\ streamDataHandler = FALSE
  /\ onClose = 0
  /\ lastChunkSize = 4096
  /\ pendingChunks = <<>>
  /\ flushTimer = FALSE
  /\ now = ETick
  /\ sockState = [s \in Socks |-> "none"]
  /\ dataL = [s \in Socks |-> [cur |-> 0, old |-> 0]]
  /\ closeL = [s \in Socks |-> FALSE]
  /\ conn = [s \in Socks |-> NoConn]
  /\ rrs = [r \in RRIds |-> NoRR]
  /\ nextSock = 1
  /\ nextRR = 1
  /\ wire = [s \in Socks |-> <<>>]
  /\ written = [s \in Socks |-> 0]
  /\ toReader = [s \in Socks |-> <<>>]
  /\ emitted = [s \in Socks |-> <<>>]
  /\ disc = [s \in Socks |-> <<>>]
  /\ lateData = [s \in Socks |-> FALSE]
  /\ a_socket = 0
  /\ a_readerJob = 0
  /\ a_rrInFlight = FALSE
  /\ a_lastChunkSize = 4096
  /\ a_jobs = [j \in AJobIds |-> NoJob]
  /\ a_rr = [r \in ARRIds |-> NoCall]
  /\ a_sent = [s \in ASockIds |-> 0]
  /\ a_avail = [s \in ASockIds |-> 0]
  /\ a_eof = [s \in ASockIds |-> FALSE]
  /\ a_closed = [s \in ASockIds |-> FALSE]
  /\ a_disc = [s \in ASockIds |-> <<>>]
  /\ a_stray = FALSE
  /\ a_connecting = FALSE
  /\ a_discJoin = -1
  /\ a_writeMutex = 0
  /\ a_writers = [w \in AWriterIds |-> NoWriter]
  /\ a_out = [s \in ASockIds |-> <<>>]
  /\ a_probes = [q \in AProbeIds |-> NoProbe]
  /\ a_mark = [s \in ASockIds |-> -1]
  /\ a_delivered = [s \in ASockIds |-> <<>>]
  /\ a_dcalls = [d \in ADiscIds |-> NoDCall]
  /\ a_wire = [s \in ASockIds |-> <<>>]
  /\ a_buf = [r \in ARRIds |-> <<>>]
  /\ a_pat = [r \in ARRIds |-> <<>>]
  /\ a_stopInRR = FALSE
  /\ a_nextSock = 1
  /\ a_nextJob = 1
  /\ a_nextRR = 1
  /\ p_pending = 0
  /\ p_flushPosted = FALSE
  /\ p_events = <<>>
  /\ p_now = 0
  /\ p_flushAt = -1
  /\ i_fd = 0
  /\ i_reading = FALSE
  /\ i_readSource = 0
  /\ i_lastChunkSize = 4096
  /\ i_net = [s \in ISockIds |-> "none"]
  /\ i_avail = [s \in ISockIds |-> 0]
  /\ i_sent = [s \in ISockIds |-> 0]
  /\ i_received = [s \in ISockIds |-> 0]
  /\ i_disc = [s \in ISockIds |-> <<>>]
  /\ i_writes = <<>>
  /\ i_nextSock = 1
  /\ k_running = FALSE
  /\ k_expect = FALSE
  /\ k_used = 0
  /\ k_lastDataAt = FALSE
  /\ k_interArr = <<>>
  /\ k_gaps = <<>>

\* ---- TCPClient helpers ---------------------------------------------------
\* isOpen(): !!s && !s.destroyed && !s.connecting
isOpen(st) == st.sock # 0 /\ st.sockState[st.sock] = "open"

\* sendEvent('tcpData', ...)
\* (a payload holds bytes of one socket only: startRead empties the buffer)
sendData(st, part) ==
  LET s == part[1][1] IN
  [st EXCEPT !.emitted[s] = @ \o [i \in 1..Len(part) |-> part[i][2]],
             !.lateData[s] = @ \/ st.disc[s] # <<>>]

\* notifyDisconnectManual / Remote / Error, for the session of socket s
notifyDisconnect(st, s, reason) ==
  [st EXCEPT !.disc[s] = Append(@, reason)]

\* the for-loop of flushPendingNow: slices of at most lim bytes, in order
RECURSIVE emitSlices(_, _, _)
emitSlices(st, payload, lim) ==
  IF payload = <<>> THEN st
  ELSE emitSlices(sendData(st, Take(payload, lim)),
                  SubSeq(payload, Min(lim, Len(payload)) + 1, Len(payload)), lim)

\* variant: the flush leaves its timer armed
flushPendingNowKeepingTimer(st) ==
  IF Len(st.pendingChunks) > 0
    THEN emitSlices([st EXCEPT !.pendingChunks = <<>>], st.pendingChunks,
                    Max(1, st.lastChunkSize))
    ELSE st

flushPendingNow(st) ==
  LET st1 == [st EXCEPT !.flushTimer = FALSE] IN
  IF Len(st.pendingChunks) > 0
    THEN emitSlices([st1 EXCEPT !.pendingChunks = <<>>], st.pendingChunks,
                    Max(1, st.lastChunkSize))
    ELSE st1

scheduleFlush(st) == [st EXCEPT !.flushTimer = TRUE]

\* s.off('data', this.streamDataHandler): removes one attached instance
offStream(st, s) ==
  IF s # 0 /\ st.streamDataHandler /\ st.dataL[s].cur > 0
    THEN [st EXCEPT !.dataL[s].cur = @ - 1] ELSE st

\* s.on('data', this.streamDataHandler): attaches one more instance (a closed
\* socket emits nothing any more, its listeners are not tracked)
onStream(st, s) ==
  IF st.sockState[s] = "closed" THEN st ELSE [st EXCEPT !.dataL[s].cur = @ + 1]

\* this.streamDataHandler = undefined (or replaced): attached instances of the
\* old closure stay attached but are no longer reachable through the field
dropHandler(st) ==
  [st EXCEPT !.streamDataHandler = FALSE,
             !.dataL = [s \in Socks |-> [cur |-> 0, old |-> st.dataL[s].old + st.dataL[s].cur]]]

\* body of stopRead()
stopReadBody(st) ==
  LET st1 == offStream(st, st.sock)
      st2 == dropHandler(st1)
      st3 == flushPendingNow(st2)
  IN [st3 EXCEPT !.reading = FALSE]

\* s.destroy() on a socket
destroy(st, s) ==
  [st EXCEPT !.sockState[s] = IF @ = "open" THEN "closingLocal"
                              ELSE IF @ = "connecting" THEN "closed" ELSE @]

\* variant: disconnect() that tears nothing down
disconnectBodySkipped(st) == st

\* variant: disconnect() that leaves the connect-time 'close' listener registered
disconnectBodyKeepingOnClose(st) ==
  LET st1 == stopReadBody(st)
      s == st1.sock
      st2 == [st1 EXCEPT !.sock = 0]
  IN IF s # 0 THEN notifyDisconnect(destroy(st2, s), s, "manual") ELSE st2

\* variant: disconnect() that also detaches the listeners of the calls in flight
disconnectBodyDetachingCalls(st) ==
  LET st1 == stopReadBody(st)
      s == st1.sock
      st2 == [st1 EXCEPT !.sock = 0]
  IN IF s # 0
       THEN LET st3 == [st2 EXCEPT !.closeL[s] = IF st2.onClose = s THEN FALSE ELSE @,
                                   !.onClose = 0,
                                   !.rrs = [r \in RRIds |->
                                              IF @[r].s = s THEN [@[r] EXCEPT !.listening = FALSE]
                                              ELSE @[r]]]
            IN notifyDisconnect(destroy(st3, s), s, "manual")
       ELSE st2

\* body of disconnect()
disconnectBody(st) ==
  LET st1 == stopReadBody(st)
      s == st1.sock
      st2 == [st1 EXCEPT !.sock = 0]
  IN IF s # 0
       THEN LET st3 == IF st2.onClose # 0
                         THEN [st2 EXCEPT !.closeL[s] = IF st2.onClose = s THEN FALSE ELSE @,
                                          !.onClose = 0]
                         ELSE st2
            IN notifyDisconnect(destroy(st3, s), s, "manual")
       ELSE st2

\* ---- writeAndRead closure -------------------------------------------------
\* value of a received byte
ValOf(st, b) == st.wire[b[1]][b[2]]

\* Buffer.indexOf(pattern) >= 0
Contains(vals, pat) ==
  \E i \in 0..(Len(vals) - Len(pat)) :
     \A j \in 1..Len(pat) : vals[i + j] = pat[j]

BufIndexOfFound(st, buf, pat) == Contains([i \in 1..Len(buf) |-> ValOf(st, buf[i])], pat)

\* finish(out, err): hasOut = (out != null), err = "" when absent
finish(st, r, hasOut, out, err) ==
  LET rr == st.rrs[r]
      st1 == [st EXCEPT !.rrs[r].timer = FALSE, !.rrs[r].idleTimer = FALSE,
                        !.rrs[r].listening = FALSE]
      st2 == IF rr.shouldSuspend /\ st1.streamDataHandler
               THEN onStream(st1, rr.s) ELSE st1
      st3 == [st2 EXCEPT !.rrInFlight = FALSE]
      resBuf == Take(IF hasOut THEN out ELSE <<>>, rr.cap)
      result == IF err # ""
                  THEN [status |-> "err", errorMessage |-> err, data |-> <<>>,
                        bytesSent |-> IF err = "connect timeout" THEN ReqLen ELSE 0,
                        bytesReceived |-> 0, matched |-> FALSE]
                  ELSE [status |-> "ok", errorMessage |-> "", data |-> resBuf,
                        bytesSent |-> ReqLen, bytesReceived |-> Len(resBuf),
                        matched |-> rr.matched]
  IN [st3 EXCEPT !.rrs[r].res = IF @.status = "pending" THEN result ELSE @,
                 \* the accumulator and the arrival times are never read again
                 !.rrs[r].chunks = <<>>, !.rrs[r].lastDataAt = 0,
                 !.rrs[r].interArr = <<>>, !.rrs[r].idleAt = 0]

\* variant: the accumulator is not cut at the cap
currentUncapped(rr) == rr.chunks

\* Buffer.concat(chunks, Math.min(size, cap))
current(rr) == Take(rr.chunks, Min(Len(rr.chunks), rr.cap))

\* currentIdleMs(): Math.round(med * 1.75) is computed on twice the median
currentIdleMs(interArr) ==
  IF Len(interArr) = 0 THEN 50
  ELSE LET sorted == SortSeq(interArr, LAMBDA a, b : a < b)
           n == Len(sorted)
           med2 == IF n % 2 = 1 THEN 2 * sorted[(n \div 2) + 1]
                                ELSE sorted[n \div 2] + sorted[(n \div 2) + 1]
           thr == (7 * med2 + 4) \div 8
       IN Max(50, Min(200, thr))

\* armIdle(): the idle timer is cleared and set again
armIdle(st, r) ==
  [st EXCEPT !.rrs[r].idleTimer = TRUE,
             !.rrs[r].idleAt = st.now + currentIdleMs(st.rrs[r].interArr)]

\* the inter-arrival sample onData records, the last five are kept
sampled(rr, t) ==
  IF rr.lastDataAt > 0
    THEN LET arr == Append(rr.interArr, t - rr.lastDataAt)
         IN IF Len(arr) > 5 THEN SubSeq(arr, Len(arr) - 4, Len(arr)) ELSE arr
    ELSE rr.interArr

\* variant: the idle timer is armed whether or not a pattern was given
onDataIdleWithPattern(st, r, chunk) ==
  LET st1 == [st EXCEPT !.rrs[r].chunks = @ \o chunk,
                        !.rrs[r].interArr = sampled(st.rrs[r], st.now),
                        !.rrs[r].lastDataAt = st.now]
      rr == st1.rrs[r]
      cur == current(rr)
  IN IF rr.hasExpect /\ BufIndexOfFound(st1, cur, rr.expectBuf)
       THEN finish([st1 EXCEPT !.rrs[r].matched = TRUE], r, TRUE, cur, "")
       ELSE IF Len(cur) >= rr.cap
              THEN finish([st1 EXCEPT !.rrs[r].matched = FALSE], r, TRUE, cur, "")
              ELSE armIdle(st1, r)

\* onData(chunk) of the writeAndRead closure
onData(st, r, chunk) ==
  LET st1 == [st EXCEPT !.rrs[r].chunks = @ \o chunk,
                        !.rrs[r].interArr = sampled(st.rrs[r], st.now),
                        !.rrs[r].lastDataAt = st.now]
      rr == st1.rrs[r]
      cur == current(rr)
  IN IF rr.hasExpect
       THEN IF BufIndexOfFound(st1, cur, rr.expectBuf)
              THEN finish([st1 EXCEPT !.rrs[r].matched = TRUE], r, TRUE, cur, "")
              ELSE IF Len(cur) >= rr.cap
                     THEN finish([st1 EXCEPT !.rrs[r].matched = FALSE], r, TRUE, cur, "")
                     ELSE st1
       ELSE IF Len(cur) >= rr.cap
              THEN finish([st1 EXCEPT !.rrs[r].matched = FALSE], r, TRUE, cur, "")
              ELSE armIdle(st1, r)

\* variant: the deadline always reports a timeout
onDeadlineAlwaysTimeout(st, r) == finish(st, r, FALSE, <<>>, "connect timeout")

\* the deadline timer callback
onDeadline(st, r) ==
  LET rr == st.rrs[r] IN
  IF Len(rr.chunks) > 0
    THEN finish([st EXCEPT !.rrs[r].matched = FALSE], r, TRUE, current(rr), "")
    ELSE finish(st, r, FALSE, <<>>, "connect timeout")

\* the idle timer callback armed by armIdle()
onIdle(st, r) == finish(st, r, TRUE, current(st.rrs[r]), "")

\* onError(err) of the writeAndRead closure
rrOnError(st, r) == finish(st, r, FALSE, <<>>, "writeAndRead failed")

\* variant: a close with collected bytes resolves successfully with them
rrOnCloseReturningBytes(st, r) ==
  IF Len(st.rrs[r].chunks) > 0
    THEN finish(st, r, TRUE, current(st.rrs[r]), "")
    ELSE finish(st, r, FALSE, <<>>, "connection closed")

\* onClose() of the writeAndRead closure
rrOnClose(st, r) == finish(st, r, FALSE, <<>>, "connection closed")

\* the 'error' (isClose = FALSE) or 'close' (isClose = TRUE) listener of every
\* call still listening on s, in registration order
RECURSIVE finishListeners(_, _, _, _)
finishListeners(st, s, r, isClose) ==
  IF r > MaxRR THEN st
  ELSE finishListeners(IF st.rrs[r].listening /\ st.rrs[r].s = s
                         THEN (IF isClose THEN rrOnClose(st, r) ELSE rrOnError(st, r))
                         ELSE st,
                       s, r + 1, isClose)

\* this.onClose installed by the connect callback for socket s
sessionOnClose(st, s, hadErr) ==
  LET st1 == IF st.streamDataHandler THEN dropHandler(offStream(st, s)) ELSE st
      st2 == [st1 EXCEPT !.reading = FALSE,
                         !.sock = IF @ = s THEN 0 ELSE @]
  IN notifyDisconnect(st2, s, IF hadErr THEN "error" ELSE "remote")

\* the stream 'data' handler installed by startRead
streamHandler(st, chunk) ==
  LET st1 == [st EXCEPT !.pendingChunks = @ \o chunk] IN
  IF Len(st1.pendingChunks) >= mergeMaxBytes THEN flushPendingNow(st1) ELSE scheduleFlush(st1)

RECURSIVE streamHandlerTimes(_, _, _)
streamHandlerTimes(st, chunk, n) ==
  IF n = 0 THEN st ELSE streamHandlerTimes(streamHandler(st, chunk), chunk, n - 1)

RECURSIVE onDataListeners(_, _, _, _)
onDataListeners(st, s, r, chunk) ==
  IF r > MaxRR THEN st
  ELSE onDataListeners(IF st.rrs[r].listening /\ st.rrs[r].s = s
                         THEN onData(st, r, chunk) ELSE st,
                       s, r + 1, chunk)

Closing(st) ==
  {s \in Socks : st.sockState[s] \in {"closingLocal", "closingOk", "closingErr"}}

\* ---- actions: public methods ----------------------------------------------
\* connect(args): disconnect(), then a new socket with its timer and once('error')
Connect(maxSock) ==
  /\ nextSock <= maxSock
  /\ LET st1 == disconnectBody(S)
         s == nextSock
     IN Apply([st1 EXCEPT !.sock = s,
                          !.sockState[s] = "connecting",
                          !.conn[s] = [connectTimer |-> TRUE, onError |-> TRUE, res |-> "pending"],
                          !.nextSock = s + 1])

Disconnect == Apply(disconnectBody(S))

\* startRead(args)
startReadBody(st, chunkSize) ==
  IF ~isOpen(st) THEN st
  ELSE IF st.reading THEN st
  ELSE LET st1 == [st EXCEPT !.reading = TRUE, !.lastChunkSize = Max(1, chunkSize)]
           st2 == [st1 EXCEPT !.pendingChunks = <<>>, !.flushTimer = FALSE]
           st3 == [dropHandler(st2) EXCEPT !.streamDataHandler = TRUE]
       IN onStream(st3, st3.sock)

\* what startRead(args) returns: ok({ reading }) on each of its paths
startReadReturn(st) ==
  IF ~isOpen(st) THEN [error |-> FALSE, reading |-> FALSE]
  ELSE [error |-> FALSE, reading |-> TRUE]

StartRead(chunkSizes) == \E chunkSize \in chunkSizes : Apply(startReadBody(S, chunkSize))

StopRead == Apply(stopReadBody(S))

\* expect.replace(/0x/gi, ''): every "0x" / "0X" is removed, left to right
RECURSIVE stripOx(_)
stripOx(cs) ==
  IF Len(cs) < 2 THEN cs
  ELSE IF cs[1] = "0" /\ cs[2] \in {"x", "X"} THEN stripOx(Tail(Tail(cs)))
  ELSE <<cs[1]>> \o stripOx(Tail(cs))

\* .replace(/\s+/g, '')
stripSpace(cs) == SelectSeq(cs, LAMBDA c : c # " ")

\* .toLowerCase(), on the characters used here
toLowerCase(cs) ==
  [i \in 1..Len(cs) |-> IF cs[i] = "X" THEN "x" ELSE IF cs[i] = "B" THEN "b" ELSE cs[i]]

\* value of a hexadecimal digit, -1 for any other character
hexDigit(c) ==
  CASE c = "0" -> 0 [] c = "1" -> 1 [] c = "b" -> 11 [] OTHER -> -1

\* parseInt(c1 + c2, 16): -1 stands for NaN.  parseInt skips a "0x" prefix
\* and reads digits up to the first character that is none
parseInt16(c1, c2) ==
  IF c1 = "0" /\ c2 = "x" THEN -1
  ELSE IF hexDigit(c1) = -1 THEN -1
  ELSE IF hexDigit(c2) = -1 THEN hexDigit(c1)
  ELSE 16 * hexDigit(c1) + hexDigit(c2)

\* the string branch of parseExpectBytes: <<>> for null, else <<bytes>>
parseExpectString(str) ==
  LET clean == toLowerCase(stripSpace(stripOx(str))) IN
  IF clean = <<>> \/ Len(clean) % 2 = 1 THEN <<>>
  ELSE IF \E i \in 1..(Len(clean) \div 2) : parseInt16(clean[2 * i - 1], clean[2 * i]) = -1
    THEN <<>>
    ELSE <<[i \in 1..(Len(clean) \div 2) |->
              parseInt16(clean[2 * i - 1], clean[2 * i]) % 256]>>

\* parseExpectBytes(expect): <<>> for null (the argument is absent or an
\* invalid string), else <<bytes>>; a number[] is copied with every element
\* masked to a byte
parseExpectBytes(expect) ==
  IF expect = <<>> THEN <<>>
  ELSE IF Len(expect) = 2 THEN parseExpectString(expect[2])
  ELSE <<[i \in 1..Len(expect[1]) |-> expect[1][i] % 256]>>

\* variant: the guards without the in-flight check
writeAndReadGuardNoBusy(st) == IF ~isOpen(st) THEN "not connected" ELSE "accepted"

\* the guards of writeAndRead: what a call made in state st returns at once
writeAndReadGuard(st) ==
  IF ~isOpen(st) THEN "not connected"
  ELSE IF st.rrInFlight THEN "busy"
  ELSE "accepted"

\* writeAndRead(args), up to the creation of its Promise
writeAndReadBody(st, r, maxBytes, expect, suspendStreamDuringRR) ==
  LET s == st.sock
      cap == Max(1, IF maxBytes = <<>> THEN 4096 ELSE maxBytes[1])
      expectUA == parseExpectBytes(expect)
      shouldSuspend == suspendStreamDuringRR /\ st.reading
      st1 == [st EXCEPT !.rrInFlight = TRUE]
      st2 == IF shouldSuspend /\ st1.streamDataHandler /\ isOpen(st1) /\ st1.reading
               THEN onStream(st1, s)
               ELSE st1
  IN [st2 EXCEPT
        !.rrs[r] = [s |-> s, shouldSuspend |-> shouldSuspend,
                    cap |-> cap, hasExpect |-> expectUA # <<>>,
                    expectBuf |-> IF expectUA # <<>> THEN expectUA[1] ELSE <<>>,
                    chunks |-> <<>>, matched |-> FALSE, timer |-> TRUE,
                    idleTimer |-> FALSE, listening |-> TRUE, wpending |-> TRUE,
                    lastDataAt |-> 0, interArr |-> <<>>, idleAt |-> 0,
                    res |-> [status |-> "pending"]],
        !.nextRR = r + 1]

\* writeAndRead(args): <<what the call returns at once, state after it>>
writeAndRead(st, r, maxBytes, expect, suspendStreamDuringRR) ==
  IF writeAndReadGuard(st) = "accepted"
    THEN <<"accepted", writeAndReadBody(st, r, maxBytes, expect, suspendStreamDuringRR)>>
    ELSE <<writeAndReadGuard(st), st>>

WriteAndRead(maxCalls, maxBytesArgs, expects, suspends) ==
  \E maxBytes \in maxBytesArgs, expect \in expects, suspendStreamDuringRR \in suspends :
    /\ nextRR <= maxCalls
    /\ Apply(writeAndRead(S, nextRR, maxBytes, expect, suspendStreamDuringRR)[2])

\* variant: write() hands its bytes to the socket before the in-flight check
writeSendingWhenBusy(st, len) ==
  IF ~isOpen(st) THEN <<"not connected", st>>
  ELSE <<IF st.rrInFlight THEN "busy" ELSE "accepted",
         [st EXCEPT !.written[st.sock] = @ + len]>>

\* write(args): <<what the call returns at once, state after it>>; the
\* callback of this.sock.write only resolves the Promise
write(st, len) ==
  IF ~isOpen(st) THEN <<"not connected", st>>
  ELSE IF st.rrInFlight THEN <<"busy", st>>
  ELSE <<"accepted", [st EXCEPT !.written[st.sock] = @ + len]>>

Write(maxWritten, lens) ==
  \E len \in lens :
    /\ sock # 0 => written[sock] + len <= maxWritten
    /\ Apply(write(S, len)[2])

\* ---- actions: socket and timer callbacks ----------------------------------
\* the callback of s.connect(): the socket is connected.  (A socket created
\* after another one was destroyed does not report its connection before the
\* destroyed one has emitted 'close'.)
ConnectOk(s) ==
  /\ sockState[s] = "connecting"
  /\ Closing(S) = {}
  /\ Apply([S EXCEPT !.sockState[s] = "open",
                     !.conn[s] = [connectTimer |-> FALSE, onError |-> FALSE,
                                  res |-> IF @.res = "pending" THEN "ok" ELSE @.res],
                     !.onClose = s,
                     !.closeL[s] = TRUE])

\* onError of the connect phase
ConnectError(s) ==
  /\ sockState[s] = "connecting"
  /\ conn[s].onError
  /\ Closing(S) = {}
  /\ Apply([S EXCEPT !.sockState[s] = "closed",
                     !.conn[s] = [connectTimer |-> FALSE, onError |-> FALSE,
                                  res |-> IF @.res = "pending" THEN "fail" ELSE @.res],
                     !.sock = IF @ = s THEN 0 ELSE @])

\* variant: the connectTimer callback clears this.sock whatever it holds
ConnectTimeoutClearingSock(s) ==
  /\ conn[s].connectTimer
  /\ Apply([destroy(S, s) EXCEPT
              !.conn[s] = [connectTimer |-> FALSE, onError |-> FALSE,
                           res |-> IF @.res = "pending" THEN "fail" ELSE @.res],
              !.sock = 0])

\* the connectTimer callback
ConnectTimeout(s) ==
  /\ conn[s].connectTimer
  /\ Apply([destroy(S, s) EXCEPT
              !.conn[s] = [connectTimer |-> FALSE, onError |-> FALSE,
                           res |-> IF @.res = "pending" THEN "fail" ELSE @.res],
              !.sock = IF @ = s THEN 0 ELSE @])

\* the peer closes (FIN): the socket is destroyed, 'close' follows
RemoteFin(s) ==
  /\ sockState[s] = "open"
  /\ Apply([S EXCEPT !.sockState[s] = "closingOk"])

\* a socket error while a writeAndRead listens for 'error'
RemoteErr(s) ==
  /\ sockState[s] = "open"
  /\ \E r \in RRIds : rrs[r].listening /\ rrs[r].s = s
  /\ Apply(finishListeners([S EXCEPT !.sockState[s] = "closingErr"], s, 1, FALSE))

\* the 'close' event of a destroyed socket: listeners in registration order
SockClose(s) ==
  /\ s \in Closing(S)
  /\ \A r \in RRIds : ~(rrs[r].wpending /\ rrs[r].s = s)
  /\ LET st1 == [S EXCEPT !.sockState[s] = "closed", !.closeL[s] = FALSE,
                          !.dataL[s] = [cur |-> 0, old |-> 0]]
         st2 == IF closeL[s] THEN sessionOnClose(st1, s, sockState[s] = "closingErr") ELSE st1
     IN Apply(finishListeners(st2, s, 1, TRUE))

\* a 'data' event: every attached listener gets the chunk.  (Bytes that
\* arrive while no 'data' listener is attached reach no consumer at that time;
\* they are not modelled.)
Data(s, maxBytes, vals) ==
  /\ sockState[s] = "open"
  /\ \/ dataL[s].cur + dataL[s].old > 0
     \/ \E r \in RRIds : rrs[r].listening /\ rrs[r].s = s
  /\ \E n \in 1..MaxChunk : \E vs \in [1..n -> vals] :
       /\ Len(wire[s]) + n <= maxBytes
       /\ LET chunk == [i \in 1..n |-> <<s, Len(wire[s]) + i>>]
              k == dataL[s].cur + dataL[s].old
              st1 == [S EXCEPT !.wire[s] = @ \o vs,
                               !.toReader[s] = IF k > 0 THEN @ \o chunk ELSE @]
              st2 == streamHandlerTimes(st1, chunk, k)
          IN Apply(onDataListeners(st2, s, 1, chunk))

\* the flushTimer callback
FlushTimerFire ==
  /\ flushTimer
  /\ Apply(flushPendingNow([S EXCEPT !.flushTimer = FALSE]))

RRDeadline(r) ==
  /\ rrs[r].timer
  /\ Apply(onDeadline(S, r))

\* (the specifications without a clock let the timer expire at any step)
RRIdle(r) ==
  /\ rrs[r].idleTimer
  /\ Apply(onIdle(S, r))

\* the callback of s.write(reqBuf, cb): without an error when the request was
\* written, and also when the socket was destroyed by s.destroy() before the
\* write completed
WriteCbOk(r) ==
  /\ rrs[r].wpending
  /\ sockState[rrs[r].s] \in {"open", "closingLocal"}
  /\ Apply([S EXCEPT !.rrs[r].wpending = FALSE])

\* with an error when the write failed on a connection that was lost
WriteCbErr(r) ==
  /\ rrs[r].wpending
  /\ sockState[rrs[r].s] \in {"closingOk", "closingErr"}
  /\ Apply(finish([S EXCEPT !.rrs[r].wpending = FALSE], r, FALSE, <<>>, "write failed"))

\* ---- lifecycle: several sockets, sessions with a stream reader -------------
Next ==
  \/ Connect(LifeSocks)
  \/ Disconnect
  \/ StartRead({1})
  \/ StopRead
  \/ WriteAndRead(LifeCalls, {<<2>>}, {<<>>}, BOOLEAN)
  \/ Write(LifeWritten, {1})
  \/ \E s \in Socks : Data(s, LifeBytes, {0})
  \/ \E s \in Socks : ConnectOk(s)
  \/ \E s \in Socks : ConnectError(s)
  \/ \E s \in Socks : ConnectTimeout(s)
  \/ \E s \in Socks : RemoteFin(s)
  \/ \E s \in Socks : RemoteErr(s)
  \/ \E s \in Socks : SockClose(s)
  \/ FlushTimerFire
  \/ \E r \in RRIds : RRDeadline(r)
  \/ \E r \in RRIds : RRIdle(r)
  \/ \E r \in RRIds : WriteCbOk(r)
  \/ \E r \in RRIds : WriteCbErr(r)

Spec == Init /\ [][Next]_vars

\* ---- request/response: one socket, caps and patterns over byte values ------
NextRR ==
  \/ Connect(1)
  \/ Disconnect
  \/ WriteAndRead(RRCalls, MaxBytesArgs, ExpectArgs, {TRUE})
  \/ \E s \in Socks : Data(s, RRBytes, {0, 1})
  \/ \E s \in Socks : ConnectOk(s)
  \/ \E s \in Socks : RemoteFin(s)
  \/ \E s \in Socks : RemoteErr(s)
  \/ \E s \in Socks : SockClose(s)
  \/ \E r \in RRIds : RRDeadline(r)
  \/ \E r \in RRIds : RRIdle(r)
  \/ \E r \in RRIds : WriteCbOk(r)
  \/ \E r \in RRIds : WriteCbErr(r)

SpecRR == Init /\ [][NextRR]_vars

\* the event loop delivers the 'close' event of a destroyed socket and the
\* callback of a write; timers get no fairness, they may never expire
SpecRRLive ==
  /\ Init /\ [][NextRR]_vars
  /\ \A s \in Socks : WF_vars(SockClose(s))
  /\ \A r \in RRIds : WF_vars(WriteCbOk(r)) /\ WF_vars(WriteCbErr(r))

\* ---- batching: a chunk that fills the batch buffer to its cap ---------------
\* a 'data' event with a chunk of mergeMaxBytes bytes
BigData(s) ==
  /\ sockState[s] = "open"
  /\ dataL[s].cur + dataL[s].old > 0
  /\ Len(wire[s]) <= LifeBytes
  /\ LET chunk == [i \in 1..mergeMaxBytes |-> <<s, Len(wire[s]) + i>>]
         k == dataL[s].cur + dataL[s].old
         st1 == [S EXCEPT !.wire[s] = @ \o [i \in 1..mergeMaxBytes |-> 0],
                          !.toReader[s] = @ \o chunk]
         st2 == streamHandlerTimes(st1, chunk, k)
     IN Apply(onDataListeners(st2, s, 1, chunk))

NextBatch ==
  \/ Connect(1)
  \/ Disconnect
  \/ StartRead({4096})
  \/ StopRead
  \/ WriteAndRead(1, {<<2>>}, {<<>>}, {TRUE})
  \/ \E s \in Socks : Data(s, LifeBytes, {0})
  \/ \E s \in Socks : BigData(s)
  \/ \E s \in Socks : ConnectOk(s)
  \/ \E s \in Socks : RemoteFin(s)
  \/ \E s \in Socks : SockClose(s)
  \/ FlushTimerFire
  \/ \E r \in RRIds : RRDeadline(r)
  \/ \E r \in RRIds : RRIdle(r)
  \/ \E r \in RRIds : WriteCbOk(r)

SpecBatch == Init /\ [][NextBatch]_vars

\* ---- request/response under a clock ------------------------------------------
\* the clock advances; a timer that is due runs before time goes on
Tick ==
  /\ now + ETick <= EMaxTime
  /\ \A r \in RRIds : rrs[r].idleTimer => rrs[r].idleAt > now
  /\ Apply([S EXCEPT !.now = now + ETick])

\* the idle timer callback at its expiry
RRIdleDue(r) ==
  /\ rrs[r].idleTimer
  /\ now >= rrs[r].idleAt
  /\ Apply(onIdle(S, r))

\* the deadline (args.timeout, any value) is left untimed
NextRRTimed ==
  \/ Connect(1)
  \/ WriteAndRead(RRCalls, MaxBytesArgs, ExpectArgs, {TRUE})
  \/ \E s \in Socks : Data(s, RRBytes, {0, 1})
  \/ \E s \in Socks : ConnectOk(s)
  \/ \E s \in Socks : RemoteFin(s)
  \/ \E s \in Socks : SockClose(s)
  \/ \E r \in RRIds : RRDeadline(r)
  \/ \E r \in RRIds : RRIdleDue(r)
  \/ \E r \in RRIds : WriteCbOk(r)
  \/ Tick

SpecRRTimed == Init /\ [][NextRRTimed]_vars

\* ---- request/response with expect given as a hex string --------------------
NextRRExpect ==
  \/ Connect(1)
  \/ WriteAndRead(RRCalls, {<<2>>}, HexExpectArgs, {TRUE})
  \/ \E s \in Socks : Data(s, RRBytes, {1, 11})
  \/ \E s \in Socks : ConnectOk(s)
  \/ \E s \in Socks : RemoteFin(s)
  \/ \E s \in Socks : SockClose(s)
  \/ \E r \in RRIds : RRDeadline(r)
  \/ \E r \in RRIds : RRIdle(r)
  \/ \E r \in RRIds : WriteCbOk(r)
  \/ \E r \in RRIds : WriteCbErr(r)

SpecRRExpect == Init /\ [][NextRRExpect]_vars

\* ==== Android core (class TCPClient, Kotlin) ================================
\* Public methods run on the caller's thread; connect, disconnect, write and the
\* body of writeAndRead run as coroutines on Dispatchers.IO, so a coroutine is
\* split into steps at its blocking calls (connect, join, read) and where it
\* hands its result to the callback.  input and output are assigned and
\* cleared together with socket; they are not separate variables.

AS == [socket |-> a_socket, readerJob |-> a_readerJob, rrInFlight |-> a_rrInFlight,
       lastChunkSize |-> a_lastChunkSize, jobs |-> a_jobs, rr |-> a_rr,
       sent |-> a_sent, avail |-> a_avail, eof |-> a_eof, closed |-> a_closed, disc |-> a_disc,
       stray |-> a_stray, connecting |-> a_connecting, discJoin |-> a_discJoin,
       writeMutex |-> a_writeMutex, writers |-> a_writers, out |-> a_out,
       probes |-> a_probes, mark |-> a_mark, delivered |-> a_delivered,
       dcalls |-> a_dcalls, wire |-> a_wire, buf |-> a_buf, pat |-> a_pat,
       stopInRR |-> a_stopInRR,
       nextSock |-> a_nextSock, nextJob |-> a_nextJob, nextRR |-> a_nextRR]

\* the core's state after a step of the core
ACore(st) ==
  /\ a_socket' = st.socket
  /\ a_readerJob' = st.readerJob
  /\ a_rrInFlight' = st.rrInFlight
  /\ a_lastChunkSize' = st.lastChunkSize
  /\ a_jobs' = st.jobs
  /\ a_rr' = st.rr
  /\ a_sent' = st.sent
  /\ a_avail' = st.avail
  /\ a_eof' = st.eof
  /\ a_closed' = st.closed
  /\ a_disc' = st.disc
  /\ a_stray' = st.stray
  /\ a_connecting' = st.connecting
  /\ a_discJoin' = st.discJoin
  /\ a_writeMutex' = st.writeMutex
  /\ a_writers' = st.writers
  /\ a_out' = st.out
  /\ a_probes' = st.probes
  /\ a_mark' = st.mark
  /\ a_delivered' = st.delivered
  /\ a_dcalls' = st.dcalls
  /\ a_wire' = st.wire
  /\ a_buf' = st.buf
  /\ a_pat' = st.pat
  /\ a_stopInRR' = st.stopInRR
  /\ a_nextSock' = st.nextSock
  /\ a_nextJob' = st.nextJob
  /\ a_nextRR' = st.nextRR
  /\ UNCHANGED <<evars, ivars, kvars>>

\* a step of the core alone
AApply(st) == ACore(st) /\ UNCHANGED pvars

\* readerJob?.isActive == true
readerActive(st) == st.readerJob # 0 /\ st.jobs[st.readerJob].state = "active"

\* readerJob?.cancel()
cancelReader(st) ==
  IF st.readerJob # 0
    THEN [st EXCEPT !.jobs[st.readerJob].state = IF @ = "active" THEN "cancelled" ELSE @]
    ELSE st

\* delegate?.onDisconnect(reason), attributed to session s (0: there is none)
onDisconnect(st, s, reason) ==
  IF s # 0 THEN [st EXCEPT !.disc[s] = Append(@, reason)]
  ELSE [st EXCEPT !.stray = TRUE]

\* socket?.close(); input = null; output = null; socket = null
closeSocket(st) ==
  IF st.socket # 0
    THEN [st EXCEPT !.closed[st.socket] = TRUE, !.socket = 0]
    ELSE st

\* disconnectInternal(reason)
disconnectInternal(st, reason) ==
  LET hadSomething == st.socket # 0 \/ st.readerJob # 0
      s == IF st.socket # 0 THEN st.socket
           ELSE IF st.readerJob # 0 THEN st.jobs[st.readerJob].s ELSE 0
      st1 == [cancelReader(st) EXCEPT !.readerJob = 0]
      st2 == closeSocket(st1)
  IN IF hadSomething THEN onDisconnect(st2, s, reason) ELSE st2

\* position of input in the stream of session s: bytes consumed so far
inpPos(st, s) == st.sent[s] - st.avail[s]

\* inp.mark(1)
inpMark(st, s) == [st EXCEPT !.mark[s] = inpPos(st, s)]

\* inp.read(), inp.read(buf): n bytes are consumed
inpConsume(st, s, n) == [st EXCEPT !.avail[s] = @ - n]

\* a consumer (reader loop or writeAndRead) reads n bytes of session s
inpDeliver(st, s, n) ==
  [inpConsume(st, s, n) EXCEPT
     !.delivered[s] = @ \o [i \in 1..n |-> inpPos(st, s) + i]]

\* inp.reset(): the position goes back to the mark
inpReset(st, s) == [st EXCEPT !.avail[s] = st.sent[s] - st.mark[s]]

\* isConnected() run without interruption: <<returned value, state after the
\* call>>; the 1-byte peek is mark(1), read(), reset(), and read() returns -1
\* when the peer has closed and nothing is left to read
isConnected(st) ==
  LET s == st.socket IN
  IF s = 0 THEN <<FALSE, st>>
  ELSE IF readerActive(st) \/ st.rrInFlight THEN <<TRUE, st>>
  ELSE IF st.avail[s] > 0
         THEN <<TRUE, inpReset(inpConsume(inpMark(st, s), s, 1), s)>>
  ELSE IF st.eof[s]
         THEN <<FALSE, disconnectInternal(inpMark(st, s), "remote")>>
         ELSE <<TRUE, inpMark(st, s)>>

\* startRead(chunkSize)
startRead(st, chunkSize) ==
  IF readerActive(st) THEN st
  ELSE IF st.socket = 0 THEN st
  ELSE LET size == IF chunkSize > 0 THEN chunkSize ELSE 4096
           j == st.nextJob
       IN [st EXCEPT !.lastChunkSize = size,
                     !.jobs[j] = [state |-> "active", s |-> st.socket, size |-> size],
                     !.readerJob = j,
                     !.nextJob = j + 1]

\* stopRead()
stopRead(st) == [cancelReader(st) EXCEPT !.readerJob = 0]

\* ---- Android actions: public methods ---------------------------------------
\* connect(): the coroutine up to the blocking s.connect()
A_ConnectBegin(maxSock) ==
  /\ a_connecting = FALSE
  /\ a_nextSock <= maxSock
  /\ AApply([disconnectInternal(AS, "manual") EXCEPT !.connecting = TRUE])

\* connect(): s.connect() returned or threw
A_ConnectEnd ==
  /\ a_connecting
  /\ \E ok \in BOOLEAN :
       IF ok
         THEN AApply([AS EXCEPT !.socket = a_nextSock, !.nextSock = a_nextSock + 1,
                                !.connecting = FALSE])
         ELSE AApply([disconnectInternal(AS, "error") EXCEPT !.connecting = FALSE])

\* disconnect(): the coroutine up to the join of readerJob?.cancelAndJoin()
A_DisconnectBegin ==
  /\ a_discJoin = -1
  /\ AApply([cancelReader(AS) EXCEPT !.discJoin = a_readerJob])

\* disconnect(): after the join
A_DisconnectEnd ==
  /\ a_discJoin # -1
  /\ a_discJoin # 0 => a_jobs[a_discJoin].state = "done"
  /\ LET s == a_socket
         st1 == closeSocket([AS EXCEPT !.readerJob = 0, !.discJoin = -1])
     IN AApply(onDisconnect(st1, s, "manual"))

A_IsConnected == AApply(isConnected(AS)[2])

A_StartRead ==
  /\ a_nextJob <= AJobs
  /\ \E chunkSize \in AChunkSizeArgs :
       AApply([startRead(AS, chunkSize) EXCEPT !.stopInRR = FALSE])

\* a writeAndRead has suspended the reader and has not yet run its finally block
readerSuspended(st) ==
  \E r \in ARRIds : st.rr[r].wasReading /\ st.rr[r].pc # "done"

A_StopRead ==
  AApply([stopRead(AS) EXCEPT !.stopInRR = @ \/ readerSuspended(AS)])

\* the coroutine of write(bytes): <<what the callback gets, state after it>>;
\* ioError: out.write / out.flush throws
writeCoroutine(st, ioError) ==
  IF st.socket = 0 THEN <<"not connected", st>>
  ELSE LET c == isConnected(st) IN
       IF ~c[1] THEN <<"not connected", c[2]>>
       ELSE IF ioError THEN <<"io", disconnectInternal(c[2], "error")>>
       ELSE <<"ok", c[2]>>

A_Write ==
  \E ioError \in BOOLEAN :
    /\ a_socket # 0
    /\ ioError => a_eof[a_socket]
    /\ AApply(writeCoroutine(AS, ioError)[2])

\* the guards of writeAndRead: <<outcome, state after the guards>>
writeAndReadEntry(st) ==
  LET c == isConnected(st) IN
  IF ~c[1] THEN <<"not connected", c[2]>>
  ELSE IF c[2].rrInFlight THEN <<"busy", c[2]>>
  ELSE <<"accepted", [c[2] EXCEPT !.rrInFlight = TRUE]>>

\* writeAndRead(bytes, timeout, maxBytes, expect, suspendStreamDuringRR, callback)
A_WriteAndRead ==
  \E maxBytes \in AMaxBytesArgs, hasExpect \in BOOLEAN, suspendStreamDuringRR \in BOOLEAN :
    LET e == writeAndReadEntry(AS)
        r == a_nextRR
    IN /\ a_nextRR <= ACalls
       /\ IF e[1] = "accepted"
            THEN AApply([e[2] EXCEPT
                   !.rr[r] = [pc |-> "launched", s |-> 0,
                              suspend |-> suspendStreamDuringRR, wasReading |-> FALSE,
                              joinJob |-> 0,
                              cap |-> IF maxBytes > 0 THEN maxBytes ELSE 4096,
                              hasExpect |-> hasExpect, used |-> 0,
                              res |-> [status |-> "pending", error |-> "",
                                       used |-> 0, matched |-> FALSE]],
                   !.nextRR = r + 1])
            ELSE AApply(e[2])

\* ---- Android actions: the writeAndRead coroutine ---------------------------
\* callback(Result.success(ReadResult(buf.copyOf(used), matched))); return@launch
rrSuccess(st, r, matched) ==
  [st EXCEPT !.rr[r].pc = "finally",
             !.rr[r].res = [status |-> "ok", error |-> "", used |-> st.rr[r].used,
                            matched |-> matched]]

\* callback(Result.failure(e)), from a return@launch or from the catch clause
rrFailure(st, r, error) ==
  [st EXCEPT !.rr[r].pc = "finally",
             !.rr[r].res = [status |-> "err", error |-> error, used |-> 0,
                            matched |-> FALSE]]

\* the suspend phase up to the join of readerJob?.cancelAndJoin()
A_RRLaunch(r) ==
  /\ a_rr[r].pc = "launched"
  /\ IF a_rr[r].suspend /\ readerActive(AS)
       THEN AApply([cancelReader(AS) EXCEPT !.rr[r].wasReading = TRUE,
                                            !.rr[r].joinJob = a_readerJob,
                                            !.rr[r].pc = "joining"])
       ELSE AApply([AS EXCEPT !.rr[r].pc = "write"])

\* the join returned: readerJob = null
A_RRJoined(r) ==
  /\ a_rr[r].pc = "joining"
  /\ a_jobs[a_rr[r].joinJob].state = "done"
  /\ AApply([AS EXCEPT !.readerJob = 0, !.rr[r].pc = "write"])

\* the write phase under writeMutex, then val inp = input!!
A_RRWrite(r) ==
  /\ a_rr[r].pc = "write"
  /\ \E ioError \in BOOLEAN :
       /\ ioError => (a_socket # 0 /\ a_eof[a_socket])
       /\ IF a_socket = 0
            \* output!! throws: no IOException, so no callback; finally runs
            THEN AApply([AS EXCEPT !.rr[r].pc = "finally"])
            ELSE IF ioError
              THEN AApply(rrFailure(disconnectInternal(AS, "error"), r, "io"))
              ELSE AApply([AS EXCEPT !.rr[r].pc = "read", !.rr[r].s = a_socket])

\* variant: a call with a pattern is not ended by the cap
rrReadStepPatternFirst(st, r, outcome, match) ==
  LET rr == st.rr[r]
      s == rr.s
      toRead == Min(Min(4096, rr.cap), rr.cap - rr.used)
      n == Min(st.avail[s], toRead)
      st1 == [inpDeliver(st, s, n) EXCEPT !.rr[r].used = @ + n]
  IN CASE outcome = "deadline" ->
            IF rr.used > 0 THEN rrSuccess(st, r, FALSE)
            ELSE rrFailure(st, r, "connect timeout")
       [] outcome = "ioerror" -> rrFailure(st, r, "io")
       [] outcome = "eof" -> rrFailure(st, r, "closed")
       [] outcome = "idle" -> rrSuccess(st, r, FALSE)
       [] outcome = "data" ->
            IF rr.hasExpect /\ match THEN rrSuccess(st1, r, TRUE)
            ELSE IF st1.rr[r].used >= rr.cap /\ ~rr.hasExpect THEN rrSuccess(st1, r, FALSE)
            ELSE st1

\* one iteration of the read loop; outcome: what the deadline check and
\* inp.read(tmp, 0, toRead) give
rrReadStep(st, r, outcome, match) ==
  LET rr == st.rr[r]
      s == rr.s
      toRead == Min(Min(4096, rr.cap), rr.cap - rr.used)
      n == Min(st.avail[s], toRead)
      st1 == [inpDeliver(st, s, n) EXCEPT !.rr[r].used = @ + n]
  IN CASE outcome = "deadline" ->
            IF rr.used > 0 THEN rrSuccess(st, r, FALSE)
            ELSE rrFailure(st, r, "connect timeout")
       [] outcome = "ioerror" -> rrFailure(st, r, "io")
       [] outcome = "eof" -> rrFailure(st, r, "closed")
       [] outcome = "idle" -> rrSuccess(st, r, FALSE)
       [] outcome = "data" ->
            IF rr.hasExpect /\ match THEN rrSuccess(st1, r, TRUE)
            ELSE IF st1.rr[r].used >= rr.cap THEN rrSuccess(st1, r, FALSE)
            ELSE st1

\* which outcomes the socket state allows
rrReadEnabled(st, r, outcome) ==
  LET rr == st.rr[r]
      s == rr.s
  IN CASE outcome = "deadline" -> TRUE
       [] outcome = "ioerror" -> st.closed[s]
       [] outcome = "eof" -> ~st.closed[s] /\ st.eof[s] /\ st.avail[s] = 0
       [] outcome = "idle" -> ~st.closed[s] /\ ~st.eof[s] /\ st.avail[s] = 0
                               /\ ~rr.hasExpect /\ rr.used > 0
       [] outcome = "data" -> ~st.closed[s] /\ st.avail[s] > 0

A_RRRead(r) ==
  /\ a_rr[r].pc = "read"
  /\ \E outcome \in {"deadline", "ioerror", "eof", "idle", "data"}, match \in BOOLEAN :
       /\ rrReadEnabled(AS, r, outcome)
       /\ AApply(rrReadStep(AS, r, outcome, match))

\* the finally block
rrFinally(st, r) ==
  LET st1 == [st EXCEPT !.rrInFlight = FALSE, !.rr[r].pc = "done"] IN
  IF st.rr[r].suspend /\ st.rr[r].wasReading
    THEN LET c == isConnected(st1) IN
         IF c[1] THEN startRead(c[2], c[2].lastChunkSize) ELSE c[2]
    ELSE st1

A_RRFinally(r) ==
  /\ a_rr[r].pc = "finally"
  /\ rrFinally(AS, r).nextJob <= AJobs + 1
  /\ AApply(rrFinally(AS, r))

\* ---- Android actions: the reader coroutine and the peer --------------------
\* one iteration of the reader loop of job j; a cancelled job leaves the loop
\* after the read it was blocked in
readerStep(st, j, outcome) ==
  LET job == st.jobs[j]
      s == job.s
      n == Min(st.avail[s], job.size)
      after == IF job.state = "cancelled" THEN "done" ELSE job.state
  IN CASE outcome = "timeout" -> [st EXCEPT !.jobs[j].state = after]
       [] outcome = "data" -> [inpDeliver(st, s, n) EXCEPT !.jobs[j].state = after]
       [] outcome = "eof" ->
            [disconnectInternal(st, "remote") EXCEPT !.jobs[j].state = "done"]
       [] outcome = "ioerror" ->
            [disconnectInternal(st, "error") EXCEPT !.jobs[j].state = "done"]

\* which outcomes of inp.read(buf) the socket state allows
readerReadEnabled(st, j, outcome) ==
  LET s == st.jobs[j].s IN
  /\ st.jobs[j].state \in {"active", "cancelled"}
  /\ CASE outcome = "timeout" -> st.jobs[j].state = "cancelled"
       [] outcome = "data" -> ~st.closed[s] /\ st.avail[s] > 0
       [] outcome = "eof" -> ~st.closed[s] /\ st.eof[s] /\ st.avail[s] = 0
       [] outcome = "ioerror" -> st.closed[s]

A_ReaderRead(j) ==
  /\ a_jobs[j].state \in {"active", "cancelled"}
  /\ \E outcome \in {"timeout", "data", "eof", "ioerror"} :
       /\ readerReadEnabled(AS, j, outcome)
       /\ AApply(readerStep(AS, j, outcome))

\* the peer sends a byte
A_PeerData(s) ==
  /\ s < a_nextSock /\ ~a_closed[s] /\ ~a_eof[s]
  /\ a_sent[s] < ABytes
  /\ AApply([AS EXCEPT !.sent[s] = @ + 1, !.avail[s] = @ + 1])

\* the peer closes its side
A_PeerClose(s) ==
  /\ s < a_nextSock /\ ~a_closed[s] /\ ~a_eof[s]
  /\ AApply([AS EXCEPT !.eof[s] = TRUE])

NextAndroid ==
  \/ A_ConnectBegin(ASocks)
  \/ A_ConnectEnd
  \/ A_DisconnectBegin
  \/ A_DisconnectEnd
  \/ A_IsConnected
  \/ A_StartRead
  \/ A_StopRead
  \/ A_Write
  \/ A_WriteAndRead
  \/ \E r \in ARRIds : A_RRLaunch(r)
  \/ \E r \in ARRIds : A_RRJoined(r)
  \/ \E r \in ARRIds : A_RRWrite(r)
  \/ \E r \in ARRIds : A_RRRead(r)
  \/ \E r \in ARRIds : A_RRFinally(r)
  \/ \E j \in AJobIds : A_ReaderRead(j)
  \/ \E s \in ASockIds : A_PeerData(s)
  \/ \E s \in ASockIds : A_PeerClose(s)

SpecAndroid == Init /\ [][NextAndroid]_vars

\* ---- Android: connect() again while a writeAndRead is in flight ------------
NextAndroidReconnect ==
  \/ A_ConnectBegin(AReSocks)
  \/ A_ConnectEnd
  \/ A_StartRead
  \/ A_WriteAndRead
  \/ \E r \in ARRIds : A_RRLaunch(r)
  \/ \E r \in ARRIds : A_RRJoined(r)
  \/ \E r \in ARRIds : A_RRWrite(r)
  \/ \E r \in ARRIds : A_RRRead(r)
  \/ \E r \in ARRIds : A_RRFinally(r)
  \/ \E j \in AJobIds : A_ReaderRead(j)

SpecAndroidReconnect == Init /\ [][NextAndroidReconnect]_vars

\* ---- Android: writers under writeMutex ------------------------------------
\* out.write(bytes) hands the request to the stream byte by byte: one step per
\* byte, so that writers interleave wherever the mutex lets them.
\* the caller id of write() call w and of the write phase of writeAndRead call r
writeCaller(w) == w
rrCaller(r) == AWriters + r

\* number of bytes caller c has handed to the stream of session s
sentBy(st, s, c) == Cardinality({i \in DOMAIN st.out[s] : st.out[s][i] = c})

\* variant: withLock that does not wait for the holder
mutexNeverHeld(st) == TRUE

\* writeMutex.withLock { ... } is entered when no one holds the mutex
mutexFree(st) == st.writeMutex = 0

\* write(bytes): the coroutine up to writeMutex.withLock
W_Begin(w) ==
  /\ a_writers[w].pc = "none"
  /\ \A v \in AWriterIds : v < w => a_writers[v].pc # "none"
  /\ LET c == isConnected(AS) IN
     IF a_socket = 0
       THEN AApply([AS EXCEPT !.writers[w] = [pc |-> "done", s |-> 0, res |-> "not connected"]])
       ELSE IF ~c[1]
         THEN AApply([c[2] EXCEPT !.writers[w] = [pc |-> "done", s |-> 0,
                                                  res |-> "not connected"]])
         ELSE AApply([c[2] EXCEPT !.writers[w] = [pc |-> "lock", s |-> a_socket,
                                                  res |-> "pending"]])

\* write(bytes): the mutex is taken
W_Lock(w) ==
  /\ a_writers[w].pc = "lock"
  /\ mutexFree(AS)
  /\ AApply([AS EXCEPT !.writeMutex = writeCaller(w), !.writers[w].pc = "writing"])

\* write(bytes): out.write hands one more byte to the stream, or throws
W_Byte(w) ==
  LET s == a_writers[w].s IN
  /\ a_writers[w].pc = "writing"
  /\ \E ioError \in BOOLEAN :
       /\ ioError => (a_closed[s] \/ a_eof[s])
       /\ a_closed[s] => ioError
       /\ IF ioError
            THEN AApply([disconnectInternal(AS, "error") EXCEPT
                           !.writers[w].pc = "done", !.writers[w].res = "io",
                           !.writeMutex = IF @ = writeCaller(w) THEN 0 ELSE @])
            ELSE /\ sentBy(AS, s, writeCaller(w)) < ReqLen
                 /\ AApply([AS EXCEPT !.out[s] = Append(@, writeCaller(w))])

\* write(bytes): out.flush(), callback(Result.success(bytes.size)), mutex released
W_Done(w) ==
  LET s == a_writers[w].s IN
  /\ a_writers[w].pc = "writing"
  /\ ~a_closed[s]
  /\ sentBy(AS, s, writeCaller(w)) = ReqLen
  /\ AApply([AS EXCEPT !.writers[w].pc = "done", !.writers[w].res = "ok",
                       !.writeMutex = IF @ = writeCaller(w) THEN 0 ELSE @])

\* writeAndRead: the mutex is taken for the write phase; output!! throws when
\* the session is gone (no IOException: no callback, the finally block runs)
R_WriteLock(r) ==
  /\ a_rr[r].pc = "write"
  /\ mutexFree(AS)
  /\ IF a_socket = 0
       THEN AApply([AS EXCEPT !.rr[r].pc = "finally"])
       ELSE AApply([AS EXCEPT !.writeMutex = rrCaller(r), !.rr[r].pc = "writing",
                              !.rr[r].s = a_socket])

\* writeAndRead: output!!.write hands one more byte to the stream, or throws
R_WriteByte(r) ==
  LET s == a_rr[r].s IN
  /\ a_rr[r].pc = "writing"
  /\ \E ioError \in BOOLEAN :
       /\ ioError => (a_closed[s] \/ a_eof[s])
       /\ a_closed[s] => ioError
       /\ IF ioError
            THEN AApply([rrFailure(disconnectInternal(AS, "error"), r, "io") EXCEPT
                           !.writeMutex = IF @ = rrCaller(r) THEN 0 ELSE @])
            ELSE /\ sentBy(AS, s, rrCaller(r)) < ReqLen
                 /\ AApply([AS EXCEPT !.out[s] = Append(@, rrCaller(r))])

\* writeAndRead: output!!.flush(), mutex released, val inp = input!!
R_WriteDone(r) ==
  LET s == a_rr[r].s IN
  /\ a_rr[r].pc = "writing"
  /\ ~a_closed[s]
  /\ sentBy(AS, s, rrCaller(r)) = ReqLen
  /\ AApply([AS EXCEPT !.writeMutex = IF @ = rrCaller(r) THEN 0 ELSE @,
                       !.rr[r].pc = IF a_socket = 0 THEN "finally" ELSE "read",
                       !.rr[r].s = IF a_socket = 0 THEN @ ELSE a_socket])

NextAndroidWriters ==
  \/ A_ConnectBegin(ASocks)
  \/ A_ConnectEnd
  \/ A_DisconnectBegin
  \/ A_DisconnectEnd
  \/ \E w \in AWriterIds : W_Begin(w)
  \/ \E w \in AWriterIds : W_Lock(w)
  \/ \E w \in AWriterIds : W_Byte(w)
  \/ \E w \in AWriterIds : W_Done(w)
  \/ A_WriteAndRead
  \/ \E r \in ARRIds : A_RRLaunch(r)
  \/ \E r \in ARRIds : R_WriteLock(r)
  \/ \E r \in ARRIds : R_WriteByte(r)
  \/ \E r \in ARRIds : R_WriteDone(r)
  \/ \E r \in ARRIds : A_RRRead(r)
  \/ \E r \in ARRIds : A_RRFinally(r)
  \/ \E s \in ASockIds : A_PeerClose(s)

SpecAndroidWriters == Init /\ [][NextAndroidWriters]_vars

\* ---- Android: isConnected() step by step -----------------------------------
\* isConnected() takes no lock: a call on one thread (the caller of the public
\* method, or the coroutine of write()) interleaves with the other threads
\* between its test of the active flags and each call on the input stream.
\* call q returns value ("true" / "false")
probeReturn(st, q, value) ==
  [st EXCEPT !.probes[q].pc = "done", !.probes[q].res = value]

\* isConnected(): the tests up to val inp = input
Pr_Begin(q) ==
  /\ a_probes[q].pc = "none"
  /\ \A v \in AProbeIds : v < q => a_probes[v].pc # "none"
  /\ IF a_socket = 0 THEN AApply(probeReturn(AS, q, "false"))
     ELSE IF readerActive(AS) \/ a_rrInFlight THEN AApply(probeReturn(AS, q, "true"))
     ELSE AApply([AS EXCEPT !.probes[q].pc = "mark", !.probes[q].s = a_socket])

\* isConnected(): inp.mark(1)
Pr_Mark(q) ==
  /\ a_probes[q].pc = "mark"
  /\ AApply([inpMark(AS, a_probes[q].s) EXCEPT !.probes[q].pc = "read"])

\* isConnected(): val b = inp.read() with a 5 ms timeout
Pr_Read(q) ==
  LET s == a_probes[q].s IN
  /\ a_probes[q].pc = "read"
  /\ IF a_closed[s]
       THEN AApply(probeReturn(disconnectInternal(AS, "error"), q, "false"))
       ELSE IF a_avail[s] > 0
         THEN AApply([inpConsume(AS, s, 1) EXCEPT !.probes[q].pc = "reset"])
         ELSE IF a_eof[s]
           THEN AApply(probeReturn(disconnectInternal(AS, "remote"), q, "false"))
           ELSE AApply(probeReturn(AS, q, "true"))

\* isConnected(): inp.reset()
Pr_Reset(q) ==
  LET s == a_probes[q].s IN
  /\ a_probes[q].pc = "reset"
  /\ IF a_closed[s]
       THEN AApply(probeReturn(disconnectInternal(AS, "error"), q, "false"))
       ELSE AApply(probeReturn(inpReset(AS, s), q, "true"))

NextAndroidProbe ==
  \/ A_ConnectBegin(ASocks)
  \/ A_ConnectEnd
  \/ \E q \in AProbeIds : Pr_Begin(q)
  \/ \E q \in AProbeIds : Pr_Mark(q)
  \/ \E q \in AProbeIds : Pr_Read(q)
  \/ \E q \in AProbeIds : Pr_Reset(q)
  \/ A_StartRead
  \/ A_WriteAndRead
  \/ \E r \in ARRIds : A_RRLaunch(r)
  \/ \E r \in ARRIds : A_RRJoined(r)
  \/ \E r \in ARRIds : A_RRWrite(r)
  \/ \E r \in ARRIds : A_RRRead(r)
  \/ \E r \in ARRIds : A_RRFinally(r)
  \/ \E j \in AJobIds : A_ReaderRead(j)
  \/ \E s \in ASockIds : A_PeerData(s)
  \/ \E s \in ASockIds : A_PeerClose(s)

SpecAndroidProbe == Init /\ [][NextAndroidProbe]_vars

\* ---- writeAndRead with a pattern over byte values ----------------------------
\* Helpers.indexOfRange(buf, used, pat) >= 0: pat occurs in buf[0 until used]
indexOfRangeFound(buf, used, pat) == pat # <<>> /\ Contains(Take(buf, used), pat)

\* the expect lambda the bridge passes to the core
matcher(buf, used, pat) == indexOfRangeFound(buf, used, pat)

\* TCPClientPlugin.writeAndRead with expect given as an array of numbers
P_WriteAndReadExpect ==
  \E maxBytes \in AExpectCaps, pat \in AExpectPats :
    LET e == writeAndReadEntry(AS)
        r == a_nextRR
    IN /\ a_nextRR <= ACalls
       /\ IF e[1] = "accepted"
            THEN AApply([e[2] EXCEPT
                   !.rr[r] = [pc |-> "launched", s |-> 0,
                              suspend |-> TRUE, wasReading |-> FALSE,
                              joinJob |-> 0,
                              cap |-> IF maxBytes > 0 THEN maxBytes ELSE 4096,
                              hasExpect |-> TRUE, used |-> 0,
                              res |-> [status |-> "pending", error |-> "",
                                       used |-> 0, matched |-> FALSE]],
                   !.pat[r] = pat,
                   !.nextRR = r + 1])
            ELSE AApply(e[2])

\* the bytes inp.read(tmp, 0, toRead) of call r returns
rrIncoming(st, r) ==
  LET rr == st.rr[r]
      s == rr.s
      toRead == Min(Min(4096, rr.cap), rr.cap - rr.used)
      n == Min(st.avail[s], toRead)
  IN SubSeq(st.wire[s], inpPos(st, s) + 1, inpPos(st, s) + n)

\* one iteration of the read loop, the bytes copied to buf and the lambda applied
A_RRReadExpect(r) ==
  /\ a_rr[r].pc = "read"
  /\ \E outcome \in {"deadline", "ioerror", "eof", "idle", "data"} :
       /\ rrReadEnabled(AS, r, outcome)
       /\ LET buf == IF outcome = "data" THEN a_buf[r] \o rrIncoming(AS, r) ELSE a_buf[r]
              st1 == [AS EXCEPT !.buf[r] = buf]
          IN AApply(rrReadStep(st1, r, outcome, matcher(buf, Len(buf), a_pat[r])))

\* the peer sends a byte of value v
A_PeerValue(s) ==
  /\ s < a_nextSock /\ ~a_closed[s] /\ ~a_eof[s]
  /\ a_sent[s] < AExpBytes
  /\ \E v \in {0, 1} :
       AApply([AS EXCEPT !.sent[s] = @ + 1, !.avail[s] = @ + 1, !.wire[s] = Append(@, v)])

NextAndroidExpect ==
  \/ A_ConnectBegin(ASocks)
  \/ A_ConnectEnd
  \/ P_WriteAndReadExpect
  \/ \E r \in ARRIds : A_RRLaunch(r)
  \/ \E r \in ARRIds : A_RRWrite(r)
  \/ \E r \in ARRIds : A_RRReadExpect(r)
  \/ \E r \in ARRIds : A_RRFinally(r)
  \/ \E s \in ASockIds : A_PeerValue(s)
  \/ \E s \in ASockIds : A_PeerClose(s)

SpecAndroidExpect == Init /\ [][NextAndroidExpect]_vars

\* ---- disconnectInternal called from several threads -------------------------
\* The reader loop, the coroutine of write() and isConnected() call
\* disconnectInternal on their own threads, without a lock.  A call is split
\* where another thread can run: after it has computed hadSomething, and
\* after it has cleared the fields.
\* the reader loop of job j gets -1 ("remote") or an IOException ("error",
\* the socket was closed under it) from inp.read(buf)
readerFails(st, j, reason) ==
  /\ st.jobs[j].state \in {"active", "cancelled"}
  /\ \A d \in ADiscIds : st.dcalls[d].job # j
  /\ LET s == st.jobs[j].s IN
     IF reason = "error" THEN st.closed[s]
     ELSE ~st.closed[s] /\ st.eof[s] /\ st.avail[s] = 0

\* the coroutine of write(): isConnected() answered true because a reader is
\* active, and out.write / out.flush throws on the broken connection; it
\* holds writeMutex
writeFails(st) ==
  /\ st.socket # 0 /\ readerActive(st)
  /\ st.eof[st.socket]
  /\ \A d \in ADiscIds : ~(st.dcalls[d].kind = "write" /\ st.dcalls[d].pc \in {"entered", "cleared"})

\* isConnected(): no reader, no writeAndRead, and the peek reads -1
probeFails(st) ==
  /\ st.socket # 0 /\ ~readerActive(st) /\ ~st.rrInFlight
  /\ st.eof[st.socket] /\ st.avail[st.socket] = 0 /\ ~st.closed[st.socket]

\* disconnectInternal: val hadSomething = (socket != null) || (readerJob != null)
D_Enter(d) ==
  /\ a_dcalls[d].pc = "none"
  /\ \A v \in ADiscIds : v < d => a_dcalls[v].pc # "none"
  /\ LET had == a_socket # 0 \/ a_readerJob # 0
         sess == IF a_socket # 0 THEN a_socket
                 ELSE IF a_readerJob # 0 THEN a_jobs[a_readerJob].s ELSE 0
     IN \/ \E j \in AJobIds, reason \in {"remote", "error"} :
             /\ readerFails(AS, j, reason)
             /\ AApply([AS EXCEPT !.dcalls[d] =
                    [pc |-> "entered", kind |-> "reader", job |-> j, s |-> sess,
                     had |-> had, reason |-> reason]])
        \/ /\ writeFails(AS)
           /\ AApply([AS EXCEPT !.dcalls[d] =
                  [pc |-> "entered", kind |-> "write", job |-> 0, s |-> sess,
                   had |-> had, reason |-> "error"]])
        \/ /\ probeFails(AS)
           /\ AApply([AS EXCEPT !.dcalls[d] =
                  [pc |-> "entered", kind |-> "probe", job |-> 0, s |-> sess,
                   had |-> had, reason |-> "remote"]])

\* disconnectInternal: readerJob?.cancel() ... socket = null
D_Clear(d) ==
  /\ a_dcalls[d].pc = "entered"
  /\ AApply([closeSocket([cancelReader(AS) EXCEPT !.readerJob = 0])
               EXCEPT !.dcalls[d].pc = "cleared"])

\* disconnectInternal: if (hadSomething) delegate?.onDisconnect(reason); the
\* reader loop then breaks
D_Notify(d) ==
  /\ a_dcalls[d].pc = "cleared"
  /\ LET c == a_dcalls[d]
         st1 == [AS EXCEPT !.dcalls[d].pc = "done"]
         st2 == IF c.job # 0 THEN [st1 EXCEPT !.jobs[c.job].state = "done"] ELSE st1
     IN AApply(IF c.had THEN onDisconnect(st2, c.s, c.reason) ELSE st2)

NextAndroidDisconnect ==
  \/ A_ConnectBegin(ASocks)
  \/ A_ConnectEnd
  \/ A_StartRead
  \/ A_StopRead
  \/ \E d \in ADiscIds : D_Enter(d)
  \/ \E d \in ADiscIds : D_Clear(d)
  \/ \E d \in ADiscIds : D_Notify(d)
  \/ \E s \in ASockIds : A_PeerData(s)
  \/ \E s \in ASockIds : A_PeerClose(s)

SpecAndroidDisconnect == Init /\ [][NextAndroidDisconnect]_vars

\* ==== Android bridge (class TCPClientPlugin, Kotlin) ========================
\* The bridge batches what the core's reader delivers and sends the events.
\* Work it posts to the UI thread is taken to run at once.
PS == [pending |-> p_pending, flushPosted |-> p_flushPosted, events |-> p_events,
       now |-> p_now, flushAt |-> p_flushAt]

PApply(p) ==
  /\ p_pending' = p.pending
  /\ p_flushPosted' = p.flushPosted
  /\ p_events' = p.events
  /\ p_now' = p.now
  /\ p_flushAt' = p.flushAt

\* TCPClientPlugin.flushPendingNow(): one tcpData event with all pending bytes
pluginFlushPendingNow(p) ==
  LET p1 == [p EXCEPT !.flushPosted = FALSE, !.flushAt = -1] IN
  IF p.pending > 0
    THEN [p1 EXCEPT !.pending = 0, !.events = Append(@, p.pending)]
    ELSE p1

\* TCPClientPlugin.scheduleFlush(): removeCallbacks, then postDelayed
pluginScheduleFlush(p) ==
  [p EXCEPT !.flushPosted = TRUE, !.flushAt = p.now + mergeWindowMs]

\* TCPClientPlugin.onReceive(data), n = data.size
pluginOnReceive(p, n) ==
  LET p1 == [p EXCEPT !.pending = @ + n] IN
  IF p1.pending >= mergeMaxBytes THEN pluginFlushPendingNow(p1) ELSE pluginScheduleFlush(p1)

\* TCPClientPlugin.startRead(call)
P_StartRead ==
  /\ a_nextJob <= AJobs
  /\ \E chunk \in AChunkSizeArgs :
       /\ PApply([PS EXCEPT !.pending = 0, !.flushPosted = FALSE, !.flushAt = -1])
       /\ ACore(startRead(AS, chunk))

\* TCPClientPlugin.stopRead(call)
P_StopRead ==
  /\ ACore(stopRead(AS))
  /\ PApply(pluginFlushPendingNow(PS))

\* one iteration of the reader loop of job j with the bridge as its delegate:
\* data goes to onReceive, a disconnect to onDisconnect, which flushes
P_ReaderRead(j) ==
  \E outcome \in {"timeout", "data", "eof", "ioerror"} :
    /\ readerReadEnabled(AS, j, outcome)
    /\ ACore(readerStep(AS, j, outcome))
    /\ CASE outcome = "data" ->
              PApply(pluginOnReceive(PS, Min(a_avail[a_jobs[j].s], a_jobs[j].size)))
         [] outcome \in {"eof", "ioerror"} ->
              IF readerStep(AS, j, outcome).disc # a_disc
                THEN PApply(pluginFlushPendingNow(PS)) ELSE UNCHANGED pvars
         [] outcome = "timeout" -> UNCHANGED pvars

\* flushRunnable runs
P_FlushFire ==
  /\ p_flushPosted
  /\ PApply(pluginFlushPendingNow(PS))
  /\ UNCHANGED <<evars, avars, ivars, kvars>>

NextAndroidPlugin ==
  \/ A_ConnectBegin(ASocks)
  \/ A_ConnectEnd
  \/ P_StartRead
  \/ P_StopRead
  \/ \E j \in AJobIds : P_ReaderRead(j)
  \/ P_FlushFire
  \/ \E s \in ASockIds : A_PeerData(s)
  \/ \E s \in ASockIds : A_PeerClose(s)

SpecAndroidPlugin == Init /\ [][NextAndroidPlugin]_vars

\* ---- the batcher in time -----------------------------------------------------
\* time passes; a posted flushRunnable runs when it is due
P_Tick ==
  /\ p_now + PTick <= PMaxTime
  /\ p_flushPosted => p_now + PTick <= p_flushAt
  /\ PApply([PS EXCEPT !.now = @ + PTick])
  /\ UNCHANGED <<evars, avars, ivars, kvars>>

\* flushRunnable runs at its time
P_FlushDue ==
  /\ p_flushPosted /\ p_now = p_flushAt
  /\ PApply(pluginFlushPendingNow(PS))
  /\ UNCHANGED <<evars, avars, ivars, kvars>>

NextAndroidBatcher ==
  \/ A_ConnectBegin(ASocks)
  \/ A_ConnectEnd
  \/ P_StartRead
  \/ P_StopRead
  \/ \E j \in AJobIds : P_ReaderRead(j)
  \/ P_FlushDue
  \/ P_Tick
  \/ \E s \in ASockIds : A_PeerData(s)
  \/ \E s \in ASockIds : A_PeerClose(s)

SpecAndroidBatcher == Init /\ [][NextAndroidBatcher]_vars

\* ==== iOS core (class TCPClient, Swift) =====================================
\* Every public method runs its body as one block on the serial queue (isConnected
\* with queue.sync), and the read source delivers its events on the same queue,
\* so a block is one step.  writeAndRead sets and clears rrInFlight inside one
\* block, so the flag is false whenever another block starts.
IS == [fd |-> i_fd, reading |-> i_reading, readSource |-> i_readSource,
       lastChunkSize |-> i_lastChunkSize, net |-> i_net, avail |-> i_avail,
       sent |-> i_sent, received |-> i_received, disc |-> i_disc,
       writes |-> i_writes, nextSock |-> i_nextSock]

IApply(st) ==
  /\ i_fd' = st.fd
  /\ i_reading' = st.reading
  /\ i_readSource' = st.readSource
  /\ i_lastChunkSize' = st.lastChunkSize
  /\ i_net' = st.net
  /\ i_avail' = st.avail
  /\ i_sent' = st.sent
  /\ i_received' = st.received
  /\ i_disc' = st.disc
  /\ i_writes' = st.writes
  /\ i_nextSock' = st.nextSock
  /\ UNCHANGED <<evars, avars, pvars, kvars>>

\* rrInFlight as a block finds it
iRRInFlight == FALSE

\* disconnectInternal(reason:); reading implies fd >= 0, so a notification
\* belongs to the session of fd
iDisconnectInternal(st, reason) ==
  LET had == st.fd # 0 \/ st.reading
      st1 == [st EXCEPT !.reading = FALSE, !.readSource = 0, !.fd = 0]
  IN IF had /\ st.fd # 0 THEN [st1 EXCEPT !.disc[st.fd] = Append(@, reason)] ELSE st1

\* which results of Darwin.send the connection allows: all bytes taken, EPIPE,
\* no room until the budget expires, or another errno (ECONNRESET, ETIMEDOUT,
\* ENETDOWN, ...)
iSendEnabled(st, outcome) ==
  CASE outcome = "ok" -> st.net[st.fd] \in {"up", "fin"}
    [] outcome = "timeout" -> st.net[st.fd] \in {"up", "fin"}
    [] outcome = "epipe" -> st.net[st.fd] \in {"fin", "down"}
    [] outcome = "errno" -> st.net[st.fd] = "down"

\* sendAll(bytes, budgetMs:): <<what it returns or throws, state after it>>
iSendAll(st, outcome) ==
  CASE outcome = "ok" -> <<"ok", st>>
    [] outcome = "timeout" -> <<"connect timeout", st>>
    [] outcome = "epipe" -> <<"closed", iDisconnectInternal(st, "remote")>>
    [] outcome = "errno" -> <<"posix error", st>>

\* the block of write(bytes): <<what completion gets, state after it>>
iWrite(st, outcome) ==
  IF st.fd = 0 THEN <<"not connected", st>>
  ELSE IF iRRInFlight THEN <<"busy", st>>
  ELSE iSendAll(st, outcome)

\* connect(): disconnectInternal(.manual), then the connection attempt
I_Connect ==
  /\ i_nextSock <= ISocks
  /\ \E ok \in BOOLEAN :
       LET st1 == iDisconnectInternal(IS, "manual") IN
       IF ok THEN IApply([st1 EXCEPT !.fd = i_nextSock, !.net[i_nextSock] = "up",
                                     !.nextSock = i_nextSock + 1])
       ELSE IApply(st1)

I_Disconnect == IApply(iDisconnectInternal(IS, "manual"))

I_Write ==
  /\ Len(i_writes) < IWrites
  /\ \E outcome \in {"ok", "timeout", "epipe", "errno"} :
       /\ i_fd # 0 => iSendEnabled(IS, outcome)
       /\ LET w == iWrite(IS, outcome) IN
          IApply([w[2] EXCEPT !.writes = Append(@, w[1])])

\* startRead(chunkSize:)
I_StartRead ==
  \E chunkSize \in {1} :
    IF i_fd = 0 \/ i_reading THEN IApply(IS)
    ELSE IApply([IS EXCEPT !.reading = TRUE, !.lastChunkSize = Max(1, chunkSize),
                           !.readSource = i_fd])

\* stopRead()
I_StopRead == IApply([IS EXCEPT !.reading = FALSE, !.readSource = 0])

\* the event handler of the read source: recv until it would block
I_ReadEvent ==
  LET s == i_readSource IN
  /\ s # 0
  /\ i_avail[s] > 0 \/ i_net[s] \in {"fin", "down"}
  /\ LET st1 == [IS EXCEPT !.received[s] = @ + i_avail[s], !.avail[s] = 0] IN
     CASE i_net[s] = "fin" -> IApply(iDisconnectInternal(st1, "remote"))
       [] i_net[s] = "down" -> IApply(iDisconnectInternal(st1, "error"))
       [] OTHER -> IApply(st1)

\* isConnected(): poll, then recv with MSG_PEEK
I_IsConnected ==
  IF i_fd = 0 \/ i_reading \/ iRRInFlight THEN IApply(IS)
  ELSE CASE i_net[i_fd] = "down" -> IApply(iDisconnectInternal(IS, "remote"))
         [] i_net[i_fd] = "fin" ->
              \E hup \in BOOLEAN :
                IF hup \/ i_avail[i_fd] = 0 THEN IApply(iDisconnectInternal(IS, "remote"))
                ELSE IApply(IS)
         [] OTHER -> IApply(IS)

\* the peer sends a byte, closes, or the connection breaks
I_PeerData(s) ==
  /\ i_net[s] = "up" /\ i_fd = s
  /\ i_sent[s] < IBytes
  /\ IApply([IS EXCEPT !.sent[s] = @ + 1, !.avail[s] = @ + 1])

I_PeerFin(s) ==
  /\ i_net[s] = "up" /\ i_fd = s
  /\ IApply([IS EXCEPT !.net[s] = "fin"])

I_NetDown(s) ==
  /\ i_net[s] \in {"up", "fin"} /\ i_fd = s
  /\ IApply([IS EXCEPT !.net[s] = "down"])

NextIOS ==
  \/ I_Connect
  \/ I_Disconnect
  \/ I_Write
  \/ I_StartRead
  \/ I_StopRead
  \/ I_ReadEvent
  \/ I_IsConnected
  \/ \E s \in ISockIds : I_PeerData(s)
  \/ \E s \in ISockIds : I_PeerFin(s)
  \/ \E s \in ISockIds : I_NetDown(s)

SpecIOS == Init /\ [][NextIOS]_vars

\* ==== properties of the Electron client ====================================
Pending(r) == rrs[r].res.status = "pending"

\* a session that reached Open: its connect() resolved with connected: true
ReachedOpen(s) == conn[s].res = "ok"

\* C1: every session that reached Open gets at most one tcpDisconnect event,
\* and exactly one once it has ended (the client dropped its socket or the
\* socket is closed)
C1_ExactlyOneDisconnect ==
  \A s \in Socks : ReachedOpen(s) =>
    /\ Len(disc[s]) <= 1
    /\ (sock # s \/ sockState[s] = "closed") => Len(disc[s]) = 1

\* C1 witness: a session that reached Open was closed by the peer while a
\* writeAndRead was in flight on it, and a second session has been opened since
C1_Witness ==
  /\ ReachedOpen(1) /\ disc[1] = <<"remote">>
  /\ \E r \in RRIds : rrs[r].s = 1 /\ rrs[r].res.status = "err"
  /\ sock = 2 /\ ReachedOpen(2)

\* C2: within one session no tcpData event is sent after the session's
\* tcpDisconnect event
C2_NoDataAfterDisconnect == \A s \in Socks : ~lateData[s]

\* C3: the bytes of the tcpData events of a session, concatenated, are a prefix
\* of the bytes its socket delivered to the stream reader
C3_EmittedIsPrefixOfDelivered ==
  \A s \in Socks :
    /\ Len(emitted[s]) <= Len(toReader[s])
    /\ \A i \in 1..Min(Len(emitted[s]), Len(toReader[s])) : emitted[s][i] = toReader[s][i][2]

\* C4: while a writeAndRead that suspended the stream reader is collecting, a
\* byte that arrives is neither appended to the batch buffer nor emitted
C4_ReaderDetachedDuringRR ==
  [][(/\ wire' # wire
      /\ \E r \in RRIds : rrs[r].listening /\ rrs[r].shouldSuspend)
     => (pendingChunks' = pendingChunks /\ emitted' = emitted)]_vars

\* C5 as stated: whenever a writeAndRead is in flight, another call returns busy
C5_SecondCallIsBusy ==
  (\E r \in RRIds : Pending(r)) => writeAndReadGuard(S) = "busy"

\* C5 amended: at most one writeAndRead is in flight; while one is in flight a
\* further call is rejected at once, with busy when the socket is open and
\* with not connected otherwise
C5_AtMostOneInFlight ==
  /\ Cardinality({r \in RRIds : Pending(r)}) <= 1
  /\ (\E r \in RRIds : Pending(r)) =>
        writeAndReadGuard(S) = (IF isOpen(S) THEN "busy" ELSE "not connected")

\* C5 witness: a call is in flight on the open socket and a further call, which
\* is rejected with busy, can be made
C5_Witness ==
  /\ \E r \in RRIds : Pending(r) /\ rrs[r].chunks # <<>>
  /\ isOpen(S) /\ nextRR <= LifeCalls /\ writeAndReadGuard(S) = "busy"

\* values of the bytes of a result
DataVals(data) == [i \in 1..Len(data) |-> wire[data[i][1]][data[i][2]]]

\* C7: a successful result holds at most cap bytes (cap >= 1), bytesReceived is
\* the length of data, and matched implies that data contains the pattern
C7_ResultWithinCap ==
  \A r \in RRIds : rrs[r].res.status = "ok" =>
    /\ rrs[r].cap >= 1
    /\ Len(rrs[r].res.data) <= rrs[r].cap
    /\ rrs[r].res.bytesReceived = Len(rrs[r].res.data)
    /\ rrs[r].res.matched => Contains(DataVals(rrs[r].res.data), rrs[r].expectBuf)

\* C7 witness: a matched result of cap bytes, cut from a longer arrival
C7_Witness ==
  \E r \in RRIds :
    /\ rrs[r].res.status = "ok" /\ rrs[r].res.matched
    /\ rrs[r].cap = 2 /\ Len(rrs[r].res.data) = 2
    /\ Len(wire[rrs[r].s]) = 3

\* C8: when the deadline timer fires, collected bytes give a successful result
\* with exactly those bytes and matched = false; no byte gives the timeout
\* error with bytesSent = request length, bytesReceived = 0 and empty data
C8_DeadlinePolicy ==
  [][\A r \in RRIds : RRDeadline(r) =>
       IF rrs[r].chunks # <<>>
         THEN /\ rrs'[r].res.status = "ok"
              /\ rrs'[r].res.data = rrs[r].chunks
              /\ rrs'[r].res.matched = FALSE
         ELSE /\ rrs'[r].res.status = "err"
              /\ rrs'[r].res.errorMessage = "connect timeout"
              /\ rrs'[r].res.bytesSent = ReqLen
              /\ rrs'[r].res.bytesReceived = 0
              /\ rrs'[r].res.data = <<>>]_vars

\* C8 witness: a call with a pattern resolved successfully, unmatched and below
\* its cap: only the deadline ends such a call
C8_Witness ==
  \E r \in RRIds :
    /\ rrs[r].hasExpect /\ rrs[r].res.status = "ok" /\ ~rrs[r].res.matched
    /\ Len(rrs[r].res.data) >= 1 /\ Len(rrs[r].res.data) < rrs[r].cap

\* the 'close' event of socket s, closed by the peer, is delivered in this step
PeerCloseDelivered(s) ==
  /\ sock = s /\ sockState[s] = "closingOk" /\ sockState'[s] = "closed"

\* C9 as stated: a call that has collected bytes when the peer's close is
\* delivered resolves successfully
C9_SuccessWithCollectedBytesOnClose ==
  [][\A r \in RRIds :
       (Pending(r) /\ rrs[r].chunks # <<>> /\ PeerCloseDelivered(rrs[r].s))
         => rrs'[r].res.status = "ok"]_vars

\* C9 amended: a call still collecting when the peer's close is delivered fails
\* with connection closed and empty data, whatever it has collected
C9_CloseFailsPendingRR ==
  [][\A r \in RRIds :
       (Pending(r) /\ PeerCloseDelivered(rrs[r].s))
         => /\ rrs'[r].res.status = "err"
            /\ rrs'[r].res.errorMessage = "connection closed"
            /\ rrs'[r].res.data = <<>>
            /\ rrs'[r].res.bytesReceived = 0]_vars

\* C9 witness: the peer sent bytes to a collecting call and then closed; the
\* call has failed with connection closed
C9_Witness ==
  \E r \in RRIds :
    /\ rrs[r].res.status = "err" /\ rrs[r].res.errorMessage = "connection closed"
    /\ wire[rrs[r].s] # <<>> /\ disc[rrs[r].s] = <<"remote">>

\* C13: a connect attempt that failed or timed out (its connect() resolved
\* with connected: false) has caused no tcpDisconnect event
C13_NoDisconnectForFailedAttempt ==
  \A s \in Socks : conn[s].res = "fail" => disc[s] = <<>>

SameSession(st) ==
  /\ st.sock = sock /\ st.sockState = sockState /\ st.reading = reading
  /\ st.rrInFlight = rrInFlight /\ st.pendingChunks = pendingChunks
  /\ st.flushTimer = flushTimer /\ st.disc = disc /\ st.emitted = emitted
  /\ st.written = written /\ st.rrs = rrs /\ st.dataL = dataL

\* C15: in every state, a write or writeAndRead that returns not connected or
\* busy emits no event, hands nothing to the socket and leaves the session
\* state as it is
C15_RejectedCallChangesNothing ==
  /\ LET w == write(S, 1) IN
       w[1] \in {"not connected", "busy"} => SameSession(w[2])
  /\ \A maxBytes \in MaxBytesArgs, expect \in ExpectArgs, suspendStreamDuringRR \in BOOLEAN :
       LET c == writeAndRead(S, nextRR, maxBytes, expect, suspendStreamDuringRR) IN
       c[1] \in {"not connected", "busy"} => SameSession(c[2])

\* C15 witness: a call is in flight on an open, reading session with buffered
\* bytes and an armed flush timer; a write and a writeAndRead made now are
\* both rejected with busy
C15_Witness ==
  /\ isOpen(S) /\ rrInFlight /\ reading /\ pendingChunks # <<>> /\ flushTimer
  /\ nextRR <= LifeCalls /\ written[sock] < LifeWritten
  /\ write(S, 1)[1] = "busy"
  /\ writeAndRead(S, nextRR, <<2>>, <<>>, TRUE)[1] = "busy"

\* C17: with no open session, write, writeAndRead and startRead each return a
\* not connected error, touch no socket and leave the session closed
C17_ClosedOpsReturnNotConnected ==
  ~isOpen(S) =>
    /\ write(S, 1)[1] = "not connected" /\ SameSession(write(S, 1)[2])
    /\ \A maxBytes \in MaxBytesArgs, expect \in ExpectArgs, suspendStreamDuringRR \in BOOLEAN :
         LET c == writeAndRead(S, nextRR, maxBytes, expect, suspendStreamDuringRR) IN
         c[1] = "not connected" /\ SameSession(c[2])
    /\ startReadReturn(S).error /\ ~startReadReturn(S).reading
    /\ SameSession(startReadBody(S, 1))

\* a hex string is malformed: ignoring "0x" and whitespace it is empty, of odd
\* length or holds a character that is no hexadecimal digit
Malformed(str) ==
  LET clean == toLowerCase(stripSpace(stripOx(str))) IN
  \/ clean = <<>>
  \/ Len(clean) % 2 = 1
  \/ \E i \in 1..Len(clean) : hexDigit(clean[i]) = -1

\* C25: a writeAndRead whose expect is a malformed hex string is not started:
\* it fails at once, nothing is handed to the socket, the in-flight flag stays
\* clear and the stream reader is left alone
C25_MalformedExpectRejected ==
  \A e \in HexExpectArgs : Malformed(e[2]) =>
    LET c == writeAndRead(S, nextRR, <<2>>, e, TRUE) IN
    c[1] # "accepted" /\ SameSession(c[2])

\* the stream reader is stopped and the batcher is idle
ReaderStopped ==
  ~reading /\ ~streamDataHandler /\ pendingChunks = <<>> /\ ~flushTimer

\* C19: stopRead leaves the batch buffer empty with no flush timer armed, and
\* from then on no byte is buffered and no tcpData event is sent until the
\* next startRead
C19_NothingEmittedAfterStopRead ==
  [][/\ StopRead => (pendingChunks' = <<>> /\ ~flushTimer' /\ ~reading')
     /\ (ReaderStopped /\ ~reading') => (emitted' = emitted /\ ReaderStopped')]_vars

\* isReading(): ok({ reading: this.reading })
isReading(st) == st.reading

\* C22: isReading reports true only while the current socket exists and is
\* open, and a session that has got its tcpDisconnect event is neither
\* connected nor reading
C22_ReadingImpliesOpen ==
  /\ isReading(S) => isOpen(S)
  /\ (sock # 0 /\ disc[sock] # <<>>) => (~isOpen(S) /\ ~isReading(S))

\* ==== properties of the Android core =======================================
\* C6: once every accepted writeAndRead has resolved (its callback was
\* invoked), a further writeAndRead is not rejected as busy
C6_NotBusyAfterResolved ==
  (\A r \in ARRIds : a_rr[r].res.status # "pending")
     => writeAndReadEntry(AS)[1] # "busy"

\* C10: when a writeAndRead whose read phase saw the peer's EOF (it failed with
\* closed) completes, its session is closed and has got exactly one disconnect
\* notification
C10_EofInRRClosesSession ==
  [][\A r \in ARRIds :
       (a_rr[r].pc = "finally" /\ a_rr'[r].pc = "done" /\ a_rr[r].res.error = "closed")
         => /\ a_socket' # a_rr[r].s
            /\ Len(a_disc'[a_rr[r].s]) = 1]_vars

\* the writeAndRead call r that suspended the stream reader completes in this
\* step (its finally block runs)
SuspendedRRCompletes(r) ==
  /\ a_rr[r].pc = "finally" /\ a_rr'[r].pc = "done"
  /\ a_rr[r].suspend /\ a_rr[r].wasReading

\* C11: when a writeAndRead that suspended the stream reader completes, the
\* reader is active again on the same session with the chunk size it had
\* before if that session is still open, and no reader is active if it is not
C11_ReaderRestartedIffOpen ==
  [][\A r \in ARRIds : SuspendedRRCompletes(r) =>
       LET before == a_jobs[a_rr[r].joinJob] IN
       IF a_socket' = before.s
         THEN /\ a_readerJob' # 0
              /\ a_jobs'[a_readerJob'].state = "active"
              /\ a_jobs'[a_readerJob'].s = before.s
              /\ a_jobs'[a_readerJob'].size = before.size
         ELSE ~(a_readerJob' # 0 /\ a_jobs'[a_readerJob'].state = "active")]_vars

\* C12: disconnect() notifies Manual if and only if a session exists when it
\* closes the socket: with a session that session gets one more Manual
\* notification, without one no notification is made at all
C12_ManualIffSessionExisted ==
  [][A_DisconnectEnd =>
       IF a_socket # 0
         THEN a_disc' = [a_disc EXCEPT ![a_socket] = Append(@, "manual")] /\ a_stray' = a_stray
         ELSE a_disc' = a_disc /\ a_stray' = a_stray]_vars

\* C16: while a writeAndRead is in flight on the current session, a write is
\* rejected as busy (and so hands no byte to the socket)
C16_WriteDuringRRIsBusy ==
  (a_rrInFlight /\ a_socket # 0) => writeCoroutine(AS, FALSE)[1] = "busy"

\* call q of isConnected() is inside its peek: between mark(1) and reset()
Peeking(q) == a_probes[q].pc \in {"read", "reset"}

\* a reader job or a writeAndRead reads the input of session s
ConsumerReading(s) ==
  \/ \E j \in AJobIds : a_jobs[j].s = s /\ a_jobs[j].state \in {"active", "cancelled"}
  \/ \E r \in ARRIds : a_rr[r].s = s /\ a_rr[r].pc = "read"

\* C23: a probe that finds the peer's EOF returns false and leaves the session
\* closed with exactly one Remote notification; a probe that finds nothing
\* returns true and changes nothing; a probe that finds a byte returns true,
\* and no probe consumes a byte: the bytes read by the readers and
\* writeAndRead calls of a session are its bytes 1, 2, 3, ... in order
C23_ProbePeeksWithoutConsuming ==
  [][/\ \A q \in AProbeIds :
          LET s == a_probes[q].s IN
          /\ (Pr_Read(q) /\ ~a_closed[s] /\ a_avail[s] = 0 /\ a_eof[s]) =>
                /\ a_probes'[q].res = "false"
                /\ a_socket' = 0 /\ a_closed'[s]
                /\ a_disc'[s] = <<"remote">>
          /\ (Pr_Read(q) /\ ~a_closed[s] /\ a_avail[s] = 0 /\ ~a_eof[s]) =>
                /\ a_probes'[q].res = "true"
                /\ a_socket' = a_socket /\ a_avail' = a_avail /\ a_disc' = a_disc
                /\ a_readerJob' = a_readerJob /\ a_jobs' = a_jobs
          /\ (Pr_Reset(q) /\ ~a_closed[s]) =>
                /\ a_probes'[q].res = "true"
                /\ a_socket' = a_socket /\ a_disc' = a_disc
     /\ \A s \in ASockIds : \A i \in DOMAIN a_delivered'[s] : a_delivered'[s][i] = i]_vars

\* C24: no isConnected() call is inside its peek on a session while a reader
\* job or a writeAndRead is reading that session's input
C24_ProbeNeverOverlapsConsumer ==
  \A q \in AProbeIds : Peeking(q) => ~ConsumerReading(a_probes[q].s)

\* C21: on every session the bytes of each request (a write() call or the
\* write phase of a writeAndRead) were handed to the socket as one contiguous run
C21_WritesDoNotInterleave ==
  \A s \in ASockIds : \A i, j \in DOMAIN a_out[s] :
    (i < j /\ a_out[s][i] = a_out[s][j]) =>
       \A k \in i..j : a_out[s][k] = a_out[s][i]

\* C21 witness: a write() has sent its request, the write phase of a
\* writeAndRead is half way through its own and holds the mutex, and a second
\* write() waits for the mutex
C21_Witness ==
  /\ a_socket = 1 /\ a_out[1] = <<writeCaller(1), writeCaller(1), rrCaller(1)>>
  /\ a_writeMutex = rrCaller(1)
  /\ a_writers[2].pc = "lock"

\* the call r is collecting on a socket that disconnect() has destroyed
DisconnectedInFlight(r) ==
  Pending(r) /\ rrs[r].s # 0 /\ sockState[rrs[r].s] = "closingLocal"

\* the result of call r is the error connection closed
ResolvedClosed(r) ==
  rrs[r].res.status = "err" /\ rrs[r].res.errorMessage = "connection closed"

\* C27: a writeAndRead in flight when disconnect() destroys its socket gets
\* resolved although its timers need never expire; unless one of its timers
\* expires first, it is the socket's close that resolves it, with the error
\* connection closed; its session has exactly one tcpDisconnect event, of
\* reason manual
C27_DisconnectResolvesRR ==
  /\ \A r \in RRIds : DisconnectedInFlight(r) ~> ~Pending(r)
  /\ [][\A r \in RRIds :
         (DisconnectedInFlight(r) /\ ~Pending(r)' /\ ~RRDeadline(r) /\ ~RRIdle(r))
           => /\ ResolvedClosed(r)'
              /\ SockClose(rrs[r].s)
              /\ disc'[rrs[r].s] = <<"manual">>]_vars
  /\ [](\A r \in RRIds : DisconnectedInFlight(r) => disc[rrs[r].s] = <<"manual">>)
  /\ [](\A s \in Socks : (disc[s] # <<>> /\ disc[s][1] = "manual") => Len(disc[s]) = 1)

\* C27 witness: a call that had collected a byte was resolved with connection
\* closed on a socket that disconnect() destroyed
C27_Witness ==
  \E r \in RRIds :
    /\ ResolvedClosed(r) /\ rrs[r].s # 0
    /\ wire[rrs[r].s] # <<>>
    /\ sockState[rrs[r].s] = "closed" /\ disc[rrs[r].s] = <<"manual">>

\* ==== properties of the iOS core ===========================================
\* C26: a write that fails with a fatal send error (any error but the expiry
\* of the would-block wait) returns an error and closes the session, which
\* gets exactly one disconnect notification; a write made afterwards fails
\* with not connected
C26_FatalSendErrorDisconnects ==
  [][\A outcome \in {"epipe", "errno"} :
       (/\ i_fd # 0 /\ Len(i_writes) < IWrites /\ iSendEnabled(IS, outcome)
        /\ i_writes' = Append(i_writes, iWrite(IS, outcome)[1])
        /\ IApply([iWrite(IS, outcome)[2] EXCEPT !.writes = i_writes']))
       => /\ iWrite(IS, outcome)[1] \notin {"ok"}
          /\ i_fd' = 0
          /\ Len(i_disc'[i_fd]) = 1
          /\ iWrite(iWrite(IS, outcome)[2], "ok")[1] = "not connected"]_vars

\* C29: when a read of a writeAndRead with a pattern brings the collected
\* bytes to the cap and the pattern does not occur in them, the call succeeds
\* with exactly cap bytes and matched = false, whatever the peer has sent
\* beyond the cap
C29_CapDominatesPattern ==
  [][\A r \in ARRIds :
       (/\ a_rr[r].pc = "read" /\ a_rr[r].hasExpect
        /\ a_rr[r].used < a_rr[r].cap /\ Len(a_buf'[r]) = a_rr[r].cap
        /\ ~Contains(a_buf'[r], a_pat[r]))
       => /\ a_rr'[r].res.status = "ok"
          /\ a_rr'[r].res.used = a_rr[r].cap
          /\ a_rr'[r].res.matched = FALSE]_vars

\* C29 witness: a call with cap 2 and pattern 0 1 succeeded unmatched with the
\* two bytes 0 0, while the peer had sent 0 0 1
C29_Witness ==
  \E r \in ARRIds :
    /\ a_rr[r].res.status = "ok" /\ ~a_rr[r].res.matched /\ a_rr[r].res.used = 2
    /\ a_rr[r].cap = 2 /\ a_pat[r] = <<0, 1>> /\ a_buf[r] = <<0, 0>>
    /\ a_wire[a_rr[r].s] = <<0, 0, 1>>

\* C28: a session of the Android core gets at most one onDisconnect, also
\* when the reader, a failing write and the probe call disconnectInternal for
\* it at the same time
C28_OneDisconnectPerSession ==
  \A s \in ASockIds : Len(a_disc[s]) <= 1

\* ==== properties of the Android bridge =====================================
\* C18: a startRead while the reader is already active changes nothing: the
\* chunk size, the pending bytes and the posted flush stay as they are
C18_SecondStartReadChangesNothing ==
  [][(P_StartRead /\ readerActive(AS)) =>
       /\ a_lastChunkSize' = a_lastChunkSize
       /\ a_readerJob' = a_readerJob
       /\ p_pending' = p_pending
       /\ p_flushPosted' = p_flushPosted]_vars

\* C20: every tcpData event holds at least one byte and at most chunkSize
\* bytes, the chunk size of the startRead that activated the reader
C20_EventWithinChunkSize ==
  \A i \in 1..Len(p_events) : p_events[i] >= 1 /\ p_events[i] <= a_lastChunkSize

\* an append to the batch buffer takes place in this step
Appended == p_pending' > p_pending

\* C30: an append with no flush posted posts one for mergeWindowMs later, an
\* append with a flush posted leaves the time of that flush as it is, and the
\* pending size is below mergeMaxBytes after every append
C30_ScheduledFlushNotPostponed ==
  /\ [][(Appended /\ ~p_flushPosted) =>
          (p_flushPosted' /\ p_flushAt' = p_now + mergeWindowMs)]_vars
  /\ [][(Appended /\ p_flushPosted) =>
          (p_flushPosted' /\ p_flushAt' = p_flushAt)]_vars
  /\ [](p_pending < mergeMaxBytes)

\* sum of a sequence of numbers
RECURSIVE SumSeq(_)
SumSeq(q) == IF q = <<>> THEN 0 ELSE Head(q) + SumSeq(Tail(q))

\* number of bytes the reader loops have handed to onReceive
RECURSIVE ReceivedUpTo(_)
ReceivedUpTo(s) == IF s = 0 THEN 0 ELSE Len(a_delivered[s]) + ReceivedUpTo(s - 1)

\* C31: every byte the reader has appended to the batch buffer is either
\* still pending or has been emitted in a tcpData event; no operation
\* discards a buffered byte
C31_NoBufferedByteDiscarded ==
  ReceivedUpTo(Max(ASocks, AReSocks)) = SumSeq(p_events) + p_pending

\* ==== Android core: the idle threshold of writeAndRead =====================
\* variant: the threshold is not clamped
idleThresholdMsUnclamped(interArr) ==
  IF interArr = <<>> THEN 50
  ELSE LET sorted == SortSeq(interArr, LAMBDA a, b : a < b)
           size == Len(sorted)
           med2 == IF size % 2 = 1 THEN 2 * sorted[(size \div 2) + 1]
                                   ELSE sorted[size \div 2] + sorted[(size \div 2) + 1]
       IN (7 * med2) \div 8

\* idleThresholdMs(): (med * 1.75).toInt() is computed on twice the median
idleThresholdMs(interArr) ==
  IF interArr = <<>> THEN 50
  ELSE LET sorted == SortSeq(interArr, LAMBDA a, b : a < b)
           size == Len(sorted)
           med2 == IF size % 2 = 1 THEN 2 * sorted[(size \div 2) + 1]
                                   ELSE sorted[size \div 2] + sorted[(size \div 2) + 1]
       IN Max(50, Min(200, (7 * med2) \div 8))

\* stepMs of an iteration; the deadline is far enough not to shorten it
stepMs == IF ~k_expect /\ k_used > 0 THEN idleThresholdMs(k_interArr) ELSE 200

\* writeAndRead reaches its read loop
K_Begin ==
  /\ ~k_running
  /\ \E expect \in BOOLEAN : k_expect' = expect
  /\ k_running' = TRUE
  /\ k_used' = 0
  /\ k_lastDataAt' = FALSE
  /\ k_interArr' = <<>>
  /\ k_gaps' = <<>>
  /\ UNCHANGED <<evars, avars, pvars, ivars>>

\* an iteration whose read returns data dMs after the previous data; without
\* a pattern the read waits no longer than stepMs, with a pattern a read that
\* timed out is repeated
K_Read ==
  /\ k_running /\ k_used < KReads
  /\ \E dMs \in KGaps :
       /\ (~k_expect /\ k_used > 0) => dMs <= stepMs
       /\ k_interArr' = IF k_lastDataAt
                          THEN LET arr == Append(k_interArr, dMs)
                               IN IF Len(arr) > 5 THEN Tail(arr) ELSE arr
                          ELSE k_interArr
       /\ k_gaps' = IF k_lastDataAt THEN Append(k_gaps, dMs) ELSE k_gaps
  /\ k_used' = k_used + 1
  /\ k_lastDataAt' = TRUE
  /\ UNCHANGED <<k_running, k_expect, evars, avars, pvars, ivars>>

\* the loop ends: idle period, match, cap, deadline or failure
K_End ==
  /\ k_running
  /\ k_running' = FALSE
  /\ UNCHANGED <<k_expect, k_used, k_lastDataAt, k_interArr, k_gaps,
                 evars, avars, pvars, ivars>>

NextAndroidIdle == K_Begin \/ K_Read \/ K_End

SpecAndroidIdle == Init /\ [][NextAndroidIdle]_vars

\* twice the median of a non-empty sequence of samples
TwiceMedian(q) ==
  LET sorted == SortSeq(q, LAMBDA a, b : a < b)
      n == Len(q)
  IN IF n % 2 = 1 THEN 2 * sorted[(n + 1) \div 2]
     ELSE sorted[n \div 2] + sorted[n \div 2 + 1]

\* eight times clamp(1.75 * median(q), 50, 200)
Clamped8(q) == Max(8 * 50, Min(8 * 200, 7 * TwiceMedian(q)))

\* the ring holds the most recent gaps of the loop, five at most
RingIsRecent ==
  /\ Len(k_interArr) = Min(5, Len(k_gaps))
  /\ k_interArr = SubSeq(k_gaps, Len(k_gaps) - Len(k_interArr) + 1, Len(k_gaps))

CollectingUntilIdle(r) ==
  Pending(r) /\ ~rrs[r].hasExpect /\ rrs[r].chunks # <<>>

\* C32: a writeAndRead without a pattern that has collected a byte has its
\* idle timer set to the idle threshold after the last arrival, is resolved by
\* it no later than the first clock step at which that time has passed, and
\* the idle timer resolves it successfully with the collected bytes and
\* matched false; a writeAndRead with a pattern never has an idle timer and
\* is resolved successfully only by a match, the cap or the deadline
C32_IdleEndsOnlyPatternlessCalls ==
  /\ [](\A r \in RRIds : CollectingUntilIdle(r) =>
          /\ rrs[r].idleTimer
          /\ rrs[r].idleAt = rrs[r].lastDataAt + currentIdleMs(rrs[r].interArr)
          /\ now < rrs[r].idleAt + ETick)
  /\ [][\A r \in RRIds : (Pending(r) /\ RRIdleDue(r)) =>
          /\ CollectingUntilIdle(r)
          /\ now >= rrs[r].lastDataAt + currentIdleMs(rrs[r].interArr)
          /\ rrs'[r].res.status = "ok"
          /\ rrs'[r].res.data = current(rrs[r])
          /\ rrs'[r].res.matched = FALSE]_vars
  /\ [](\A r \in RRIds : (Pending(r) /\ rrs[r].hasExpect) => ~rrs[r].idleTimer)
  /\ [][\A r \in RRIds :
          (Pending(r) /\ rrs[r].hasExpect /\ rrs'[r].res.status = "ok") =>
            \/ rrs'[r].res.matched
            \/ Len(rrs'[r].res.data) = rrs[r].cap
            \/ RRDeadline(r)]_vars

\* a call without a pattern was resolved, after the clock has advanced, with
\* collected bytes below its cap and matched false
C32_Witness ==
  \E r \in RRIds :
    /\ rrs[r].res.status = "ok" /\ ~rrs[r].hasExpect /\ ~rrs[r].res.matched
    /\ rrs[r].res.data # <<>> /\ Len(rrs[r].res.data) < rrs[r].cap
    /\ now >= ETick + 50

\* call r has been resolved
Resolved(r) == rrs[r].res.status \in {"ok", "err"}

\* C34: once a writeAndRead has resolved, its timers are cleared and its
\* listeners removed, and its write callback, which is all that can still
\* run, leaves rrInFlight, the attached listeners and the rest of the client
\* state as they are
C34_FinishTakesEffectOnce ==
  /\ [](\A r \in RRIds : Resolved(r) =>
          ~rrs[r].timer /\ ~rrs[r].idleTimer /\ ~rrs[r].listening)
  /\ [][\A r \in RRIds : (Resolved(r) /\ (WriteCbOk(r) \/ WriteCbErr(r))) =>
          /\ rrInFlight' = rrInFlight
          /\ dataL' = dataL
          /\ UNCHANGED <<sock, reading, streamDataHandler, onClose, pendingChunks,
                         flushTimer, sockState, closeL, emitted, disc>>]_vars

\* a writeAndRead has the stream handler suspended
SuspendedByRR == \E r \in RRIds : rrs[r].listening /\ rrs[r].shouldSuspend

\* C35: on the current open socket the stream data handler is attached exactly
\* once while reading is true and no writeAndRead has it suspended, and no
\* stream data handler is attached while reading is false
C35_StreamHandlerAttachedOnce ==
  (sock # 0 /\ sockState[sock] = "open") =>
    /\ (reading /\ ~SuspendedByRR) => (dataL[sock].cur = 1 /\ dataL[sock].old = 0)
    /\ ~reading => dataL[sock].cur + dataL[sock].old = 0

\* the step appends a chunk to the batch buffer or flushes it at the cap
AppendsToBatch == toReader' # toReader

\* C36: the flush timer is armed exactly when the batch buffer is not empty;
\* a step that flushes leaves the buffer empty with no timer, and after an
\* append the buffer is empty or is below the cap with the timer armed
C36_FlushTimerIffBuffered ==
  /\ [](flushTimer <=> pendingChunks # <<>>)
  /\ [][(FlushTimerFire \/ StopRead \/ Disconnect) =>
          (pendingChunks' = <<>> /\ ~flushTimer')]_vars
  /\ [][AppendsToBatch =>
          \/ pendingChunks' = <<>> /\ ~flushTimer'
          \/ pendingChunks' # <<>> /\ Len(pendingChunks') < mergeMaxBytes
               /\ flushTimer']_vars

\* a chunk of the size of the cap has been flushed on arrival: more than
\* mergeMaxBytes bytes are emitted, the buffer is empty and no timer is armed
C36_Witness ==
  \E s \in Socks :
    /\ Len(emitted[s]) > mergeMaxBytes
    /\ pendingChunks = <<>> /\ ~flushTimer /\ reading

\* the reader coroutines that are in their loop, blocked in inp.read or about
\* to call it
ReadersInLoop == {j \in AJobIds : a_jobs[j].state \in {"active", "cancelled"}}

\* C37: at most one reader coroutine is in its read loop, a reader that was
\* stopped reads and delivers nothing once a newer reader exists, and while
\* isReading() is false no reader coroutine is in its read loop
C37_SingleReaderCoroutine ==
  /\ [](Cardinality(ReadersInLoop) <= 1)
  /\ [](~readerActive(AS) => ReadersInLoop = {})
  /\ [][\A j \in AJobIds :
          (A_ReaderRead(j) /\ a_readerJob # j /\ a_readerJob # 0) =>
            a_delivered' = a_delivered]_vars

\* C38: after a stopRead() called while a writeAndRead had the reader
\* suspended, no reader is active until startRead() is called again
C38_StopReadDuringRRStays == a_stopInRR => ~readerActive(AS)

\* C39: the timeout or error callback of a connect attempt whose socket is no
\* longer the current one leaves this.sock and the current socket as they are
\* and sends no tcpDisconnect
C39_StaleConnectCallbackHarmless ==
  [][\A s \in Socks :
       ((ConnectTimeout(s) \/ ConnectError(s)) /\ sock # s) =>
         /\ sock' = sock
         /\ disc' = disc
         /\ sock # 0 => sockState'[sock] = sockState[sock]]_vars

\* the attempt on socket s was replaced by connect() while it was connecting,
\* has failed since, and a newer socket is the current one
C39_Witness ==
  \E s \in Socks :
    /\ conn[s].res = "fail" /\ ~conn[s].connectTimer /\ disc[s] = <<"manual">>
    /\ sock # 0 /\ sock # s /\ sockState[sock] \in {"connecting", "open"}

====
